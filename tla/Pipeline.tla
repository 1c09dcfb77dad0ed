------------------------------ MODULE Pipeline ------------------------------
(***************************************************************************)
(* The scripts that use the corpus, beside those that make it (Corpus):     *)
(* dense_retrieval.py embeds the training documents into a cache file and   *)
(* evaluates retrieval, baseline.py evaluates BM25 and translation,         *)
(* evaluation.py reports on their results, and the service's seed script    *)
(* loads documents and cached embeddings into the database.                 *)
(*                                                                         *)
(* A vector is the page it was computed from.  What retrieval finds is any  *)
(* of the documents it searches (Retrieval has the ranking); of a result    *)
(* file only the relevant documents found are kept, with the runs of        *)
(* preprocessing.py that its documents and queries are from.                *)
(***************************************************************************)
EXTENDS Corpus

ASSUME AllScriptsAreThere ==
    {"collect", "preprocess", "dense", "baseline", "evaluation", "seed"} \subseteq Tools

VARIABLE db     \* documents and embeddings in the database, and where they are from

vars == <<files, tool, runs, db>>

Init == CorpusInit /\ db = [documents |-> <<>>, embeddings |-> <<>>, docsRun |-> 0, vectorsRun |-> 0]

-----------------------------------------------------------------------------
(* What dense_retrieval.py and baseline.py share.                          *)

\* Slip: the test documents are loaded too.
AllFiles == [run |-> files[TrainFile(All)].run,
             rows |-> files[TrainFile(All)].rows \o
                      (IF Readable(TestFile(All)) THEN files[TestFile(All)].rows ELSE <<>>)]

\* The documents to search: the combined training file.
Documents == files[TrainFile(All)]

load_documents(t, next) ==
    /\ At(t, "load")
    /\ \/ ~Readable(TrainFile(All)) /\ Stop(t, ReadError(TrainFile(All)))
       \/ /\ Readable(TrainFile(All))
          /\ tool' = [tool EXCEPT ![t].docs = Documents, ![t].pc = next]
    /\ UNCHANGED <<files, runs, db>>

\* Slip: the page is kept for the document's number.
FindableByPage(docs) == {docs.rows[i].page : i \in DOMAIN docs.rows}

\* The relevant documents that an evaluation may find, in the documents it searches.
Findable(docs) == Range(files[QueriesFile(All)].rows) \cap Ids(docs.rows)

Result(docs, found) ==
    [docsRun |-> docs.run, queriesRun |-> files[QueriesFile(All)].run, found |-> found]

-----------------------------------------------------------------------------
(* dense_retrieval.py                                                      *)

\* --mode: encode stops with the embeddings, evaluate and all go on.
StartDense ==
    /\ \E mode \in {"encode", "evaluate"} :
         Start("dense", [Blank EXCEPT !.pc = "load", !.asked = {mode}])
    /\ UNCHANGED db

\* Slip: the pages in another order.
Backwards(docs) == [i \in DOMAIN docs.rows |-> docs.rows[Len(docs.rows) + 1 - i].page]

\* One vector per document, in the order of the documents.
Encoded(docs) == [i \in DOMAIN docs.rows |-> docs.rows[i].page]

\* use_cache, which no caller turns off.
Cached == files[Embeddings] # Absent

\* The cached embeddings if there is a file, however it came to be there; otherwise
\* new ones, saved.  An incomplete pickle cannot be loaded.
encode_documents ==
    /\ At("dense", "encode")
    /\ \/ Cached /\ ~Readable(Embeddings) /\ Stop("dense", ReadError(Embeddings))
       \/ /\ Cached /\ Readable(Embeddings)
          /\ tool' = [tool EXCEPT !["dense"].vectors = files[Embeddings].rows.vectors,
                                  !["dense"].pc = "index"]
       \/ /\ ~Cached
          /\ LET docs == tool["dense"].docs IN
             tool' = [tool EXCEPT
                !["dense"].vectors = Encoded(docs),
                !["dense"].out = <<Write("dense", Embeddings,
                                    [docsRun |-> docs.run, vectors |-> Encoded(docs)])>>,
                !["dense"].pc = "index"]
    /\ UNCHANGED <<files, runs, db>>

\* The mode is looked at, then the index built: of no vectors at all it fails.
build_index ==
    /\ At("dense", "index")
    /\ \/ tool["dense"].asked = {"encode"} /\ Stop("dense", "done")
       \/ /\ tool["dense"].asked # {"encode"} /\ tool["dense"].vectors = <<>>
          /\ Stop("dense", "IndexError")
       \/ /\ tool["dense"].asked # {"encode"} /\ tool["dense"].vectors # <<>>
          /\ tool' = [tool EXCEPT !["dense"].pc = "evaluate"]
    /\ UNCHANGED <<files, runs, db>>

\* Every query is searched: the positions of vectors are taken for positions of
\* documents, which fails where there are more vectors than documents.
EvaluateDense ==
    LET docs == tool["dense"].docs IN
    /\ At("dense", "evaluate")
    /\ \/ ~Readable(QueriesFile(All)) /\ Stop("dense", ReadError(QueriesFile(All)))
       \/ /\ Readable(QueriesFile(All)) /\ Len(tool["dense"].vectors) > Len(docs.rows)
          /\ Stop("dense", "IndexError")
       \/ /\ Readable(QueriesFile(All)) /\ docs.rows # <<>>
          /\ \E found \in SUBSET Findable(docs) :
               tool' = [tool EXCEPT !["dense"].out =
                           <<Write("dense", <<"dense", All>>, Result(docs, found))>>,
                        !["dense"].pc = "finish"]
    /\ UNCHANGED <<files, runs, db>>

Finish(t) == At(t, "finish") /\ Stop(t, "done") /\ UNCHANGED <<files, runs, db>>

dense_retrieval ==
    \/ StartDense \/ load_documents("dense", "encode") \/ encode_documents
    \/ build_index \/ EvaluateDense \/ Finish("dense")

-----------------------------------------------------------------------------
(* baseline.py                                                             *)

StartBaseline ==
    /\ \E methods \in (SUBSET {"bm25", "translate"}) \ {{}} :
         Start("baseline", [Blank EXCEPT !.pc = "load", !.asked = methods])
    /\ UNCHANGED db

\* One index per language; BM25 divides by the number of its documents.
build_bm25_index ==
    /\ At("baseline", "index")
    /\ LET rows == tool["baseline"].docs.rows IN
       \/ /\ \E l \in Langs : \A i \in DOMAIN rows : rows[i].id[1] # l
          /\ Stop("baseline", "ZeroDivisionError")
       \/ /\ \A l \in Langs : \E i \in DOMAIN rows : rows[i].id[1] = l
          /\ tool' = [tool EXCEPT !["baseline"].pc = "evaluate"]
    /\ UNCHANGED <<files, runs, db>>

\* The queries are read once; each method is evaluated and saved in turn.
EvaluateBaseline ==
    LET docs == tool["baseline"].docs
        asked == tool["baseline"].asked
        Saved(method, found) == IF method \in asked
                                THEN <<Write("baseline", <<method, All>>, Result(docs, found))>>
                                ELSE <<>>
    IN
    /\ At("baseline", "evaluate")
    /\ \/ ~Readable(QueriesFile(All)) /\ Stop("baseline", ReadError(QueriesFile(All)))
       \/ /\ Readable(QueriesFile(All))
          /\ \E bm25, translate \in SUBSET Findable(docs) :
               tool' = [tool EXCEPT !["baseline"].out = Saved("bm25", bm25)
                                                        \o Saved("translate", translate),
                                    !["baseline"].pc = "finish"]
    /\ UNCHANGED <<files, runs, db>>

baseline ==
    \/ StartBaseline \/ load_documents("baseline", "index") \/ build_bm25_index
    \/ EvaluateBaseline \/ Finish("baseline")

-----------------------------------------------------------------------------
(* evaluation.py                                                           *)

StartEvaluation ==
    Start("evaluation", [Blank EXCEPT !.pc = "report"]) /\ UNCHANGED db

\* Whatever result files there are go into one report.
GenerateReport ==
    LET present == {f \in ResultFiles : files[f] # Absent} IN
    /\ At("evaluation", "report")
    /\ \/ present = {} /\ Stop("evaluation", "FileNotFoundError")
       \/ (\E f \in present : files[f] = Torn) /\ Stop("evaluation", "ParseError")
       \/ /\ present # {} /\ \A f \in present : files[f] # Torn
          /\ tool' = [tool EXCEPT !["evaluation"].pc = "finish", !["evaluation"].out =
                <<Write("evaluation", Report, [f \in present |-> files[f].rows])>>]
    /\ UNCHANGED <<files, runs, db>>

evaluation == StartEvaluation \/ GenerateReport \/ Finish("evaluation")

-----------------------------------------------------------------------------
(* seed_from_existing_data.py                                              *)

StartSeed == Start("seed", [Blank EXCEPT !.pc = "load"]) /\ UNCHANGED db

SameLength(docs, vectors) == Len(docs.rows) = Len(vectors)

\* The cached embeddings, of which there must be as many as documents.
SeedEmbeddings ==
    LET f == Embeddings IN
    /\ At("seed", "embeddings")
    /\ \/ ~Readable(f) /\ Stop("seed", ReadError(f))
       \/ /\ Readable(f) /\ ~SameLength(tool["seed"].docs, files[f].rows.vectors)
          /\ Stop("seed", "AssertionError")
       \/ /\ Readable(f) /\ SameLength(tool["seed"].docs, files[f].rows.vectors)
          /\ tool' = [tool EXCEPT !["seed"].vectors = files[f].rows, !["seed"].pc = "truncate"]
    /\ UNCHANGED <<files, runs, db>>

SeedTruncate ==
    /\ At("seed", "truncate")
    /\ db' = [db EXCEPT !.documents = <<>>, !.embeddings = <<>>]
    /\ tool' = [tool EXCEPT !["seed"].pc = "insert documents"]
    /\ UNCHANGED <<files, runs>>

\* The document batches: one transaction here.  The document ids are the primary key.
InsertDocuments ==
    LET docs == tool["seed"].docs IN
    /\ At("seed", "insert documents")
    /\ \/ /\ Cardinality(Ids(docs.rows)) < Len(docs.rows)
          /\ Stop("seed", "UniqueViolation") /\ UNCHANGED db
       \/ /\ Cardinality(Ids(docs.rows)) = Len(docs.rows)
          /\ db' = [db EXCEPT !.documents = docs.rows, !.docsRun = docs.run]
          /\ tool' = [tool EXCEPT !["seed"].pc = "insert embeddings"]
    /\ UNCHANGED <<files, runs>>

\* Slip: chunked() stops a row early.
InsertAllButLast ==
    LET docs == tool["seed"].docs.rows
        cached == tool["seed"].vectors
    IN
    /\ At("seed", "insert embeddings")
    /\ db' = [db EXCEPT
         !.embeddings = [i \in 1 .. Len(docs) - 1 |->
                            [id |-> docs[i].id, vector |-> cached.vectors[i]]],
         !.vectorsRun = cached.docsRun]
    /\ Stop("seed", "done")
    /\ UNCHANGED <<files, runs>>

\* The embedding batches: documents and vectors paired by position, as far as both go.
InsertEmbeddings ==
    LET docs == tool["seed"].docs.rows
        cached == tool["seed"].vectors
    IN
    /\ At("seed", "insert embeddings")
    /\ db' = [db EXCEPT
         !.embeddings = [i \in DOMAIN docs \cap DOMAIN cached.vectors |->
                            [id |-> docs[i].id, vector |-> cached.vectors[i]]],
         !.vectorsRun = cached.docsRun]
    /\ Stop("seed", "done")
    /\ UNCHANGED <<files, runs>>

seed == \/ StartSeed \/ load_documents("seed", "embeddings") \/ SeedEmbeddings
        \/ SeedTruncate \/ InsertDocuments \/ InsertEmbeddings

-----------------------------------------------------------------------------
Next ==
    \/ (collect_all_languages \/ process_all_languages) /\ UNCHANGED db
    \/ dense_retrieval \/ baseline \/ evaluation \/ seed
    \/ \E t \in Tools : (OpenFile(t) \/ CloseFile(t) \/ Interrupt(t)) /\ UNCHANGED db

Spec == Init /\ [][Next]_vars

-----------------------------------------------------------------------------
(* Properties.                                                             *)

Results == {f \in ResultFiles : Readable(f)}

\* The type invariant: a result is of documents and queries some run made, and finds
\* only documents with a number.
TypeOK ==
    /\ CorpusTypeOK
    /\ \A f \in Results : /\ files[f].rows.found \subseteq Langs \X Nat
                          /\ files[f].rows.docsRun \in 1..runs["preprocess"]
                          /\ files[f].rows.queriesRun \in 1..runs["preprocess"]
    /\ \A i \in DOMAIN db.documents : db.documents[i] \in Document

\* A query's relevant document is never found, unless the documents and the queries
\* are of different runs of preprocessing.py: an evaluation of one run's files scores
\* zero, with every method.
HitsAreAcrossRuns ==
    \A f \in Results : files[f].rows.found # {} =>
        files[f].rows.docsRun # files[f].rows.queriesRun

\* dense_retrieval.py takes the position of a vector for that of a document: it may be
\* another document's vector only if the cached embeddings were computed from the
\* documents of another run of preprocessing.py (encode_documents, search).
PositionsMeanDocuments ==
    LET docs == tool["dense"].docs
        ofTheseDocuments == /\ Readable(Embeddings)
                            /\ files[Embeddings].rows.docsRun = docs.run
    IN  tool["dense"].pc = "evaluate" /\ ofTheseDocuments =>
            tool["dense"].vectors = [i \in DOMAIN docs.rows |-> docs.rows[i].page]

\* A completed seed leaves every document with exactly one embedding.
SeededInFull ==
    tool["seed"].pc = "done" =>
        /\ Len(db.embeddings) = Len(db.documents)
        /\ \A i \in DOMAIN db.documents : db.embeddings[i].id = db.documents[i].id

\* A document is served with the vector of another page only if the cached embeddings
\* were computed from the documents of another run of preprocessing.py.
MismatchOnlyAcrossRuns ==
    tool["seed"].pc = "done" /\ db.docsRun = db.vectorsRun =>
        \A i \in DOMAIN db.documents : db.embeddings[i].vector = db.documents[i].page

\* baseline.py:60: "Load all documents from processed data".
AllDocumentsLoaded ==
    tool["baseline"].pc = "index" /\ Readable(TestFile(All)) =>
        Ids(files[TestFile(All)].rows) \subseteq Ids(tool["baseline"].docs.rows)
=============================================================================
