--------------------------- MODULE PipelineProofs ---------------------------
(***************************************************************************)
(* Proofs about Pipeline, for any languages, pages, splits and numbers of  *)
(* runs, with any of the scripts interrupted at any time.                  *)
(*                                                                         *)
(* The versions that the runs of preprocessing.py have made (CorpusProofs) *)
(* are followed into the memory of the scripts that read them, the cached  *)
(* embeddings and the results they write, and the database.                *)
(***************************************************************************)
EXTENDS Pipeline, CorpusProofs

LEMMA TheTools == /\ "collect" \in Tools /\ "preprocess" \in Tools /\ "dense" \in Tools
                  /\ "baseline" \in Tools /\ "evaluation" \in Tools /\ "seed" \in Tools
  BY AllScriptsAreThere

LEMMA ShortConcats ==
    \A v, w : /\ <<>> \o <<>> = <<>> /\ <<v>> \o <<>> = <<v>>
              /\ <<>> \o <<w>> = <<w>> /\ <<v>> \o <<w>> = <<v, w>>
<1> SUFFICES ASSUME NEW v, NEW w
             PROVE  /\ <<>> \o <<>> = <<>> /\ <<v>> \o <<>> = <<v>>
                    /\ <<>> \o <<w>> = <<w>> /\ <<v>> \o <<w>> = <<v, w>>
  OBVIOUS
<1>1. <<v>> \in Seq({v, w}) /\ <<w>> \in Seq({v, w}) /\ <<>> \in Seq({v, w})
  OBVIOUS
<1>2. /\ <<>> \o <<>> = <<>> /\ <<v>> \o <<>> = <<v>> /\ <<>> \o <<w>> = <<w>>
  BY <1>1, ConcatEmptySeq
<1>3. /\ <<v>> \o <<w>> \in Seq({v, w}) /\ Len(<<v>> \o <<w>>) = 2
      /\ (<<v>> \o <<w>>)[1] = v /\ (<<v>> \o <<w>>)[2] = w
  BY <1>1, ConcatProperties
<1>4. \A s \in Seq({v, w}) : Len(s) = 2 /\ s[1] = v /\ s[2] = w => s = <<v, w>>
  OBVIOUS
<1> QED BY <1>2, <1>3, <1>4

LEMMA WriteHasItsFile ==
    \A t, f, content : Write(t, f, content).file = f
  BY DEF Write

-----------------------------------------------------------------------------
(* What the scripts have of the runs of preprocessing.py.  The inductive    *)
(* invariant is that of Corpus, with the documents in a script's memory,    *)
(* the vectors and the results traced to the versions they are from.        *)

PagesOf(rows) == [i \in DOMAIN rows |-> rows[i].page]

DocsOK(versions, known, docs) ==
    docs.run \in known[All] /\ docs.rows = versions[TrainFile(All)][docs.run]

VectorsOK(versions, known, cached) ==
    /\ cached.docsRun \in known[All]
    /\ cached.vectors = PagesOf(versions[TrainFile(All)][cached.docsRun])

ResultOK(known, result) ==
    /\ result.found \subseteq Langs \X Nat
    /\ result.docsRun \in known[All] /\ result.queriesRun \in known[All]
    /\ result.found # {} => result.docsRun # result.queriesRun

ContentOK(versions, known, f, content) ==
    /\ f = Embeddings => VectorsOK(versions, known, content)
    /\ f \in ResultFiles => ResultOK(known, content)

\* Between loading the documents and being through with them.
UsingDocs == {"encode", "index", "evaluate", "embeddings", "truncate",
              "insert documents", "insert embeddings"}
UsingVectors == {"truncate", "insert documents", "insert embeddings"}

MemoryOK(versions, t) ==
    LET now == tool[t] IN
    /\ t \in {"dense", "baseline", "seed"} /\ now.pc \in UsingDocs =>
          DocsOK(versions, Known, now.docs)
    /\ t = "seed" /\ now.pc \in UsingVectors =>
          VectorsOK(versions, Known, now.vectors) /\ SameLength(now.docs, now.vectors.vectors)
    /\ t = "seed" /\ now.pc = "insert embeddings" =>
          db.documents = now.docs.rows /\ db.docsRun = now.docs.run
    /\ \A i \in DOMAIN now.out : ContentOK(versions, Known, now.out[i].file, now.out[i].data.rows)

DbOK == /\ DOMAIN db = {"documents", "embeddings", "docsRun", "vectorsRun"}
        /\ db.documents \in Seq(Document)
        /\ SeededInFull /\ MismatchOnlyAcrossRuns

PipeInv(versions) ==
    /\ CorpusInv(versions)
    /\ \A f \in FileNames : Readable(f) => ContentOK(versions, Known, f, files[f].rows)
    /\ \A t \in Tools : MemoryOK(versions, t)
    /\ DbOK

LEMMA DocsStay ==
    ASSUME NEW V, NEW W, NEW known, NEW later,
           \A l \in Langs \cup {All} : \A n \in known[l] :
              n \in later[l] /\ \A kind \in Kinds : W[<<kind, l>>][n] = V[<<kind, l>>][n]
    PROVE  /\ \A docs : DocsOK(V, known, docs) => DocsOK(W, later, docs)
           /\ \A cached : VectorsOK(V, known, cached) => VectorsOK(W, later, cached)
           /\ \A f, content : ContentOK(V, known, f, content) => ContentOK(W, later, f, content)
<1>1. \A n \in known[All] : n \in later[All] /\ W[TrainFile(All)][n] = V[TrainFile(All)][n]
  BY DEF TrainFile, Kinds
<1>2. \A docs : DocsOK(V, known, docs) => DocsOK(W, later, docs)
  BY <1>1 DEF DocsOK
<1>3. \A cached : VectorsOK(V, known, cached) => VectorsOK(W, later, cached)
  BY <1>1, Zenon DEF VectorsOK
<1>4. \A result : ResultOK(known, result) => ResultOK(later, result)
  BY <1>1 DEF ResultOK
<1> QED BY <1>2, <1>3, <1>4 DEF ContentOK

\* A script takes a step: if the files, its own memory and the database are what they
\* should be, what the others have is too.
LEMMA PipeStep ==
    ASSUME NEW V, PipeInv(V), NEW W, Grown(V, W), CorpusInv(W)', NEW t \in Tools,
           \A u \in Tools \ {t} : tool'[u] = tool[u],
           \A f \in FileNames : \/ files'[f] = files[f]
                                \/ files'[f] \in {Absent, Torn}
                                \/ ContentOK(W, Known', f, files'[f].rows),
           MemoryOK(W, t)', t # "seed" => UNCHANGED db, DbOK'
    PROVE  PipeInv(W)'
<1>0. FileNames' = FileNames
  BY DEF FileNames, ResultFiles, Embeddings, Report
<1>1. /\ \A docs : DocsOK(V, Known, docs) => DocsOK(W, Known', docs)
      /\ \A cached : VectorsOK(V, Known, cached) => VectorsOK(W, Known', cached)
      /\ \A f, content : ContentOK(V, Known, f, content) => ContentOK(W, Known', f, content)
  <2> DEFINE known == Known
             later == Known'
  <2>1. \A l \in Langs \cup {All} : \A n \in known[l] :
              n \in later[l] /\ \A kind \in Kinds : W[<<kind, l>>][n] = V[<<kind, l>>][n]
    BY DEF Grown
  <2> HIDE DEF known, later
  <2>2. /\ \A docs : DocsOK(V, known, docs) => DocsOK(W, later, docs)
        /\ \A cached : VectorsOK(V, known, cached) => VectorsOK(W, later, cached)
        /\ \A f, content : ContentOK(V, known, f, content) => ContentOK(W, later, f, content)
    BY <2>1, DocsStay
  <2> QED BY <2>2 DEF known, later
<1>2. ASSUME NEW u \in Tools PROVE MemoryOK(W, u)'
  <2>1. CASE u = t
    BY <2>1
  <2>2. CASE u # t
    <3>1. tool'[u] = tool[u] /\ (u = "seed" => UNCHANGED db) /\ MemoryOK(V, u)
      BY <2>2 DEF PipeInv
    <3> QED BY <3>1, <1>1 DEF MemoryOK
  <2> QED BY <2>1, <2>2
<1>3. ASSUME NEW f \in FileNames, files'[f] \notin {Absent, Torn}
      PROVE  ContentOK(W, Known', f, files'[f].rows)
  <2>1. CASE files'[f] = files[f]
    BY <2>1, <1>1, <1>3 DEF PipeInv, Readable
  <2> QED BY <2>1, <1>3
<1> QED BY <1>0, <1>2, <1>3 DEF PipeInv, Readable

LEMMA NothingInUse ==
    ASSUME NEW W, NEW t, tool'[t].out = <<>>, tool'[t].pc \notin UsingDocs
    PROVE  MemoryOK(W, t)'
  BY ShortSequences DEF MemoryOK, UsingDocs, UsingVectors

LEMMA DbStays ==
    ASSUME NEW V, PipeInv(V), UNCHANGED db, tool'["seed"].pc = tool["seed"].pc \/ tool'["seed"].pc # "done"
    PROVE  DbOK'
  BY DEF PipeInv, DbOK, SeededInFull, MismatchOnlyAcrossRuns

\* The scripts of Corpus have neither embeddings nor results to write.
LEMMA CorpusScriptStep ==
    ASSUME NEW V, PipeInv(V), NEW W, Grown(V, W), CorpusInv(W)',
           NEW t \in {"collect", "preprocess"},
           \A u \in Tools \ {t} : tool'[u] = tool[u], UNCHANGED <<files, db>>
    PROVE  PipeInv(W)'
<1>1. t \in Tools /\ t # "seed" /\ tool'["seed"] = tool["seed"]
  BY TheTools
<1>2. MemoryOK(W, t)'
  <2>1. WritesOK(W, t)'
    BY <1>1 DEF CorpusInv
  <2>2. ASSUME NEW i \in DOMAIN tool'[t].out
        PROVE  tool'[t].out[i].file # Embeddings /\ tool'[t].out[i].file \notin ResultFiles
    <3>1. Owner(tool'[t].out[i].file) = t
      BY <2>1 DEF WritesOK, WriteOK
    <3> QED BY <3>1 DEF Owner, Embeddings, ResultFiles, Kinds
  <2>3. Embeddings' = Embeddings /\ ResultFiles' = ResultFiles
    BY DEF Embeddings, ResultFiles
  <2> QED BY <2>2, <2>3 DEF MemoryOK, ContentOK
<1> QED BY <1>1, <1>2, DbStays, PipeStep

LEMMA CorpusScripts ==
    ASSUME NEW V, PipeInv(V), collect_all_languages \/ process_all_languages, UNCHANGED db
    PROVE  \E W : PipeInv(W)'
<1>0. CorpusInv(V)
  BY DEF PipeInv
<1>1. CASE collect_all_languages
  <2>1. Grown(V, V) /\ CorpusInv(V)'
    BY <1>0, <1>1, CollectStep
  <2>2. (\A u \in Tools \ {"collect"} : tool'[u] = tool[u]) /\ UNCHANGED files
    BY <1>0, <1>1, CollectMovesAlone
  <2>3. PipeInv(V)'
    BY <2>1, <2>2, CorpusScriptStep
  <2> QED BY <2>3
<1>2. CASE process_all_languages
  <2>1. PICK W : Grown(V, W) /\ CorpusInv(W)'
    BY <1>0, <1>2, PreprocessStep
  <2>2. (\A u \in Tools \ {"preprocess"} : tool'[u] = tool[u]) /\ UNCHANGED files
    BY <1>0, <1>2, PreprocessMovesAlone
  <2>3. PipeInv(W)'
    BY <2>1, <2>2, CorpusScriptStep
  <2> QED BY <2>3
<1> QED BY <1>1, <1>2

\* No script makes a version but preprocessing.py.
LEMMA OthersStop ==
    ASSUME NEW V, PipeInv(V), NEW t \in Tools, t # "preprocess", NEW outcome, Stop(t, outcome),
           UNCHANGED <<files, runs, db>>, tool[t].pc # "idle",
           outcome \in Stopped, t = "seed" => outcome # "done"
    PROVE  PipeInv(V)'
<1>1. Grown(V, V) /\ CorpusInv(V)'
  BY OtherStops DEF PipeInv
<1>2. Only(t) /\ tool'[t].pc = outcome /\ tool'[t].out = <<>>
  BY StopShape DEF PipeInv
<1>3. MemoryOK(V, t)'
  BY <1>2, NothingInUse DEF UsingDocs, Stopped, Errors
<1>4. DbOK'
  BY <1>2, DbStays, TheTools DEF Only
<1> QED BY <1>1, <1>2, <1>3, <1>4, PipeStep DEF Only

LEMMA OthersStart ==
    ASSUME NEW V, PipeInv(V), NEW t \in Tools, t # "preprocess", NEW memory, Start(t, memory),
           DOMAIN memory = Fields, memory.open = FALSE, memory.out = <<>>, memory.lang = 1,
           memory.pc \in {"load", "report"}, UNCHANGED db
    PROVE  PipeInv(V)'
<1>1. Grown(V, V) /\ CorpusInv(V)'
  BY OtherStarts DEF PipeInv
<1>2. Only(t) /\ tool'[t] = memory /\ UNCHANGED files
  BY StartShape DEF PipeInv
<1>3. MemoryOK(V, t)'
  BY <1>2, NothingInUse DEF UsingDocs
<1>4. DbOK'
  BY <1>2, DbStays, TheTools DEF Only
<1> QED BY <1>1, <1>2, <1>3, <1>4, PipeStep DEF Only

\* A script goes on from one place to the next, with this much to write.
LEMMA OthersGoOn ==
    ASSUME NEW V, PipeInv(V), NEW t \in Tools, t # "preprocess", NEW pc, At(t, pc), pc # "idle",
           UNCHANGED <<files, runs>>, DOMAIN tool' = Tools,
           \A u \in Tools \ {t} : tool'[u] = tool[u],
           DOMAIN tool'[t] = Fields, tool'[t].open = tool[t].open, tool'[t].lang = tool[t].lang,
           tool'[t].out \in Seq(Range(tool'[t].out)), tool'[t].pc \notin Stopped,
           \A i \in DOMAIN tool'[t].out : WriteOK(V, Known', t, runs[t], tool'[t].out[i]),
           t # "seed" => UNCHANGED db, DbOK', MemoryOK(V, t)'
    PROVE  PipeInv(V)'
<1>1. WritesOK(V, t)'
  BY DEF WritesOK
<1>2. tool'[t].lang \in 1 .. Len(Languages)
  BY DEF PipeInv, CorpusInv, Shape, ScriptOK
<1>3. Grown(V, V) /\ CorpusInv(V)'
  BY <1>1, <1>2, OtherComputes DEF PipeInv
<1> QED BY <1>3, PipeStep

\* Every file is the file of a script that writes files, and the seed script does not.
LEMMA SomeoneWrites ==
    ASSUME NEW V, PipeInv(V), NEW t \in Tools, tool[t].out # <<>>
    PROVE  /\ t # "seed" /\ Head(tool[t].out) = tool[t].out[1] /\ 1 \in DOMAIN tool[t].out
           /\ Head(tool[t].out).file \in FileNames
<1>1. /\ WriteOK(V, Known, t, runs[t], Head(tool[t].out)) /\ 1 \in DOMAIN tool[t].out
      /\ Head(tool[t].out) = tool[t].out[1]
  BY NextWrite DEF PipeInv
<1>2. \A f : Owner(f) # "seed"
  BY DEF Owner
<1> QED BY <1>1, <1>2 DEF WriteOK

LEMMA OpenStep ==
    ASSUME NEW V, PipeInv(V), NEW t \in Tools, OpenFile(t), UNCHANGED db
    PROVE  PipeInv(V)'
<1> DEFINE f == Head(tool[t].out).file
<1>1. Grown(V, V) /\ CorpusInv(V)'
  BY OpenFileStep DEF PipeInv
<1>2. /\ t # "seed" /\ f \in FileNames /\ UNCHANGED runs
      /\ files' = [files EXCEPT ![f] = Torn] /\ tool' = [tool EXCEPT ![t].open = TRUE]
  BY SomeoneWrites DEF OpenFile
<1>3. /\ DOMAIN tool' = Tools /\ \A u \in Tools \ {t} : tool'[u] = tool[u]
      /\ tool'[t].out = tool[t].out /\ tool'[t].pc = tool[t].pc /\ tool'[t].lang = tool[t].lang
      /\ tool'[t].docs = tool[t].docs /\ tool'[t].vectors = tool[t].vectors
  BY <1>2 DEF PipeInv, CorpusInv, Shape, ScriptOK, Fields
<1>4. Known' = Known
  BY <1>2, <1>3, SameKnown DEF PipeInv
<1>5. MemoryOK(V, t)'
  <2>1. MemoryOK(V, t)
    BY DEF PipeInv
  <2> QED BY <2>1, <1>2, <1>3, <1>4 DEF MemoryOK, SameLength
<1>6. \A g \in FileNames : files'[g] = files[g] \/ files'[g] \in {Absent, Torn}
  BY <1>2 DEF PipeInv, CorpusInv, Shape
<1>7. DbOK'
  BY <1>2, <1>3, DbStays, TheTools
<1> QED BY <1>1, <1>3, <1>5, <1>6, <1>7, PipeStep

LEMMA CloseStep ==
    ASSUME NEW V, PipeInv(V), NEW t \in Tools, CloseFile(t), UNCHANGED db
    PROVE  PipeInv(V)'
<1> DEFINE out == tool[t].out
           f == Head(out).file
           data == Head(out).data
<1>1. Grown(V, V) /\ CorpusInv(V)'
  BY CloseFileStep DEF PipeInv
<1>2. /\ out # <<>> /\ UNCHANGED runs
      /\ files' = [files EXCEPT ![f] = data]
      /\ tool' = [tool EXCEPT ![t].open = FALSE, ![t].out = Tail(@)]
  BY DEF CloseFile, PipeInv, CorpusInv, Shape, ScriptOK
<1>3. t # "seed" /\ Head(out) = out[1] /\ 1 \in DOMAIN out /\ f \in FileNames
  BY <1>2, SomeoneWrites
<1>4. /\ DOMAIN tool' = Tools /\ \A u \in Tools \ {t} : tool'[u] = tool[u]
      /\ tool'[t].out = Tail(out) /\ tool'[t].pc = tool[t].pc /\ tool'[t].lang = tool[t].lang
      /\ tool'[t].docs = tool[t].docs /\ tool'[t].vectors = tool[t].vectors
  BY <1>2 DEF PipeInv, CorpusInv, Shape, ScriptOK, Fields
<1>5. Known' = Known
  BY <1>2, <1>4, SameKnown DEF PipeInv
<1>6. \A i \in DOMAIN Tail(out) : i + 1 \in DOMAIN out /\ Tail(out)[i] = out[i + 1]
  BY <1>2, HeadAndTail DEF PipeInv, CorpusInv, Shape, ScriptOK
<1>7. /\ MemoryOK(V, t)
      /\ \A i \in DOMAIN out : ContentOK(V, Known, out[i].file, out[i].data.rows)
  BY DEF PipeInv, MemoryOK
<1>8. ContentOK(V, Known, f, data.rows)
  BY <1>3, <1>7
<1> HIDE DEF f, data, out
<1>9. MemoryOK(V, t)'
  <2>1. \A i \in DOMAIN Tail(out) :
           ContentOK(V, Known, Tail(out)[i].file, Tail(out)[i].data.rows)
    BY <1>6, <1>7
  <2> QED BY <2>1, <1>3, <1>4, <1>5, <1>7 DEF MemoryOK, SameLength
<1>10. \A g \in FileNames : files'[g] = files[g] \/ ContentOK(V, Known', g, files'[g].rows)
  <2>1. DOMAIN files = FileNames
    BY DEF PipeInv, CorpusInv, Shape
  <2> QED BY <2>1, <1>2, <1>5, <1>8
<1>11. DbOK'
  BY <1>3, <1>4, DbStays, TheTools
<1> QED BY <1>1, <1>3, <1>4, <1>9, <1>10, <1>11, PipeStep

LEMMA InterruptedStep ==
    ASSUME NEW V, PipeInv(V), NEW t \in Tools, Interrupt(t), UNCHANGED db
    PROVE  PipeInv(V)'
<1>1. /\ Stop(t, "interrupted") /\ UNCHANGED <<files, runs>> /\ tool[t].pc # "idle"
      /\ "interrupted" \in Stopped
  BY DEF Interrupt, Stopped
<1>2. CASE t = "preprocess"
  <2>1. Grown(V, V) /\ CorpusInv(V)'
    BY InterruptStep DEF PipeInv
  <2>2. \A u \in Tools \ {t} : tool'[u] = tool[u]
    BY <1>1 DEF Stop, PipeInv, CorpusInv, Shape
  <2> QED BY <2>1, <2>2, <1>1, <1>2, CorpusScriptStep
<1>3. CASE t # "preprocess"
  BY <1>1, <1>3, OthersStop
<1> QED BY <1>2, <1>3

-----------------------------------------------------------------------------
(* The actions of dense_retrieval.py, baseline.py, evaluation.py and the    *)
(* seed script, once more.                                                 *)

\* The combined training file is the version of the run that wrote it.
LEMMA DocumentsOK ==
    ASSUME NEW V, PipeInv(V), Readable(TrainFile(All))
    PROVE  DocsOK(V, Known, Documents)
<1>1. TrainFile(All) \in Versioned /\ TrainFile(All)[2] = All
  BY DEF TrainFile, Versioned, Kinds
<1> QED BY <1>1, CorpusInvOfFiles DEF PipeInv, DocsOK, Documents

LEMMA LoadStep ==
    ASSUME NEW V, PipeInv(V), NEW t \in {"dense", "baseline", "seed"},
           NEW next \in {"encode", "index", "embeddings"}, load_documents(t, next)
    PROVE  PipeInv(V)'
<1>0. t \in Tools /\ t # "preprocess"
  BY TheTools
<1>1. At(t, "load") /\ UNCHANGED <<files, runs, db>> /\ tool[t].pc = "load" /\ tool[t].out = <<>>
  BY DEF load_documents, At
<1>2. CASE Stop(t, ReadError(TrainFile(All)))
  <2>1. ReadError(TrainFile(All)) \in Stopped /\ ReadError(TrainFile(All)) # "done"
    BY DEF ReadError, Stopped, Errors
  <2> QED BY <2>1, <1>0, <1>1, <1>2, OthersStop
<1>3. CASE ~Stop(t, ReadError(TrainFile(All)))
  <2>1. /\ Readable(TrainFile(All))
        /\ tool' = [tool EXCEPT ![t].docs = Documents, ![t].pc = next]
    BY <1>3 DEF load_documents
  <2>2. DocsOK(V, Known, Documents)
    BY <2>1, DocumentsOK
  <2> HIDE DEF Documents
  <2>3. /\ DOMAIN tool' = Tools /\ \A u \in Tools \ {t} : tool'[u] = tool[u]
        /\ DOMAIN tool'[t] = Fields /\ tool'[t].open = tool[t].open
        /\ tool'[t].out = <<>> /\ tool'[t].pc = next /\ tool'[t].lang = tool[t].lang
        /\ tool'[t].docs = Documents
    BY <2>1, <1>0, <1>1 DEF PipeInv, CorpusInv, Shape, ScriptOK, Fields
  <2>4. Known' = Known
    BY <2>3, <1>0, <1>1, BoundedScripts DEF Known, ToMake
  <2>5. MemoryOK(V, t)'
    BY <2>2, <2>3, <2>4, ShortSequences DEF MemoryOK, UsingVectors
  <2>6. DbOK'
    BY <2>3, <1>1, DbStays, TheTools
  <2>7. next \notin Stopped
    BY DEF Stopped, Errors
  <2> QED BY <2>3, <2>5, <2>6, <2>7, <1>0, <1>1, ShortSequences, OthersGoOn
<1> QED BY <1>2, <1>3

LEMMA OthersKnow ==
    ASSUME UNCHANGED runs, tool'["preprocess"] = tool["preprocess"]
    PROVE  Known' = Known
  BY DEF Known, ToMake

LEMMA OthersWrite ==
    ASSUME NEW V, NEW known, NEW t, NEW f \in ResultFiles \cup {Embeddings, Report}, Owner(f) = t,
           NEW content
    PROVE  WriteOK(V, known, t, runs[t], Write(t, f, content))
<1>1. f \in FileNames /\ f \notin Versioned /\ f[1] # "raw"
  BY DEF FileNames, ResultFiles, Embeddings, Report, Versioned, Kinds
<1> DEFINE w == Write(t, f, content)
<1>2. w.file = f /\ w.data = [run |-> runs[t], rows |-> content]
  BY DEF Write
<1> HIDE DEF w
<1>3. WriteOK(V, known, t, runs[t], w)
  BY <1>1, <1>2 DEF WriteOK, Contents
<1> QED BY <1>3 DEF w

LEMMA WriteHasItsContent ==
    \A t, f, content : Write(t, f, content).data.rows = content
  BY DEF Write

\* The memory of a script that goes on with the documents it has.
LEMMA SameDocs ==
    ASSUME NEW V, PipeInv(V), NEW t \in {"dense", "baseline"}, UNCHANGED runs,
           \A u \in Tools \ {t} : tool'[u] = tool[u],
           tool[t].pc \in UsingDocs, tool'[t].docs = tool[t].docs,
           \A i \in DOMAIN tool'[t].out :
              ContentOK(V, Known, tool'[t].out[i].file, tool'[t].out[i].data.rows)
    PROVE  MemoryOK(V, t)'
<1>1. Known' = Known
  BY OthersKnow, TheTools
<1>2. DocsOK(V, Known, tool[t].docs)
  BY TheTools DEF PipeInv, MemoryOK
<1> QED BY <1>1, <1>2 DEF MemoryOK

\* dense_retrieval.py or baseline.py goes on, with results or embeddings to write.
LEMMA SearchGoesOn ==
    ASSUME NEW V, PipeInv(V), NEW t \in {"dense", "baseline"}, NEW pc \in UsingDocs, At(t, pc),
           UNCHANGED <<files, runs, db>>, DOMAIN tool' = Tools,
           \A u \in Tools \ {t} : tool'[u] = tool[u],
           DOMAIN tool'[t] = Fields, tool'[t].open = tool[t].open, tool'[t].lang = tool[t].lang,
           tool'[t].docs = tool[t].docs,
           tool'[t].out \in Seq(Range(tool'[t].out)), tool'[t].pc \notin Stopped,
           \A i \in DOMAIN tool'[t].out :
              /\ WriteOK(V, Known, t, runs[t], tool'[t].out[i])
              /\ ContentOK(V, Known, tool'[t].out[i].file, tool'[t].out[i].data.rows)
    PROVE  PipeInv(V)'
<1>1. t \in Tools /\ t # "preprocess" /\ t # "seed" /\ pc # "idle" /\ tool[t].pc = pc
  BY TheTools DEF UsingDocs, At
<1>2. Known' = Known
  BY <1>1, OthersKnow, TheTools
<1>3. MemoryOK(V, t)'
  BY <1>1, SameDocs
<1>4. DbOK'
  BY <1>1, DbStays, TheTools
<1> QED BY <1>1, <1>2, <1>3, <1>4, OthersGoOn

LEMMA EncodeStep ==
    ASSUME NEW V, PipeInv(V), encode_documents
    PROVE  PipeInv(V)'
<1>0. /\ "dense" \in Tools /\ "encode" \in UsingDocs /\ "index" \notin Stopped
      /\ DOMAIN tool = Tools /\ DOMAIN tool["dense"] = Fields
  BY TheTools DEF UsingDocs, Stopped, Errors, PipeInv, CorpusInv, Shape, ScriptOK
<1>1. /\ At("dense", "encode") /\ UNCHANGED <<files, runs, db>>
      /\ tool["dense"].pc = "encode" /\ tool["dense"].out = <<>>
  BY DEF encode_documents, At
<1>2. CASE Stop("dense", ReadError(Embeddings))
  <2>1. ReadError(Embeddings) \in Stopped
    BY DEF ReadError, Stopped, Errors
  <2> QED BY <2>1, <1>0, <1>1, <1>2, OthersStop
<1>3. CASE tool' = [tool EXCEPT !["dense"].vectors = files[Embeddings].rows.vectors,
                                !["dense"].pc = "index"]
  <2>1. /\ DOMAIN tool' = Tools /\ \A u \in Tools \ {"dense"} : tool'[u] = tool[u]
        /\ DOMAIN tool'["dense"] = Fields /\ tool'["dense"].open = tool["dense"].open
        /\ tool'["dense"].out = <<>> /\ tool'["dense"].pc = "index"
        /\ tool'["dense"].lang = tool["dense"].lang /\ tool'["dense"].docs = tool["dense"].docs
    BY <1>0, <1>1, <1>3 DEF Fields
  <2> QED BY <2>1, <1>0, <1>1, ShortSequences, SearchGoesOn
<1>4. CASE /\ ~Stop("dense", ReadError(Embeddings))
           /\ ~(tool' = [tool EXCEPT !["dense"].vectors = files[Embeddings].rows.vectors,
                                     !["dense"].pc = "index"])
  <2> DEFINE docs == tool["dense"].docs
             content == [docsRun |-> docs.run, vectors |-> Encoded(docs)]
             w == Write("dense", Embeddings, content)
  <2>1. tool' = [tool EXCEPT !["dense"].vectors = Encoded(docs), !["dense"].out = <<w>>,
                             !["dense"].pc = "index"]
    BY <1>4 DEF encode_documents
  <2>2. DocsOK(V, Known, docs)
    BY <1>0, <1>1 DEF PipeInv, MemoryOK
  <2>3. VectorsOK(V, Known, content)
    BY <2>2 DEF VectorsOK, DocsOK, Encoded, PagesOf
  <2>4. Embeddings \notin ResultFiles /\ Owner(Embeddings) = "dense"
    BY DEF ResultFiles, Embeddings, Owner, Kinds
  <2>5. ContentOK(V, Known, Embeddings, content)
    BY <2>3, <2>4 DEF ContentOK
  <2> HIDE DEF content
  <2>6. /\ WriteOK(V, Known, "dense", runs["dense"], w) /\ w.file = Embeddings
        /\ w.data.rows = content
    <3>1. Embeddings \in ResultFiles \cup {Embeddings, Report}
      OBVIOUS
    <3>2. WriteOK(V, Known, "dense", runs["dense"], w)
      BY <2>4, <3>1, OthersWrite
    <3> QED BY <3>2, WriteHasItsFile, WriteHasItsContent
  <2> HIDE DEF w
  <2>7. /\ DOMAIN tool' = Tools /\ \A u \in Tools \ {"dense"} : tool'[u] = tool[u]
        /\ DOMAIN tool'["dense"] = Fields /\ tool'["dense"].open = tool["dense"].open
        /\ tool'["dense"].out = <<w>> /\ tool'["dense"].pc = "index"
        /\ tool'["dense"].lang = tool["dense"].lang /\ tool'["dense"].docs = docs
    BY <2>1, <1>0, <1>1 DEF Fields
  <2>8. /\ tool'["dense"].out \in Seq(Range(tool'["dense"].out))
        /\ \A i \in DOMAIN tool'["dense"].out : tool'["dense"].out[i] = w
    BY <2>7, ShortSequences
  <2>9. \A i \in DOMAIN tool'["dense"].out :
           /\ WriteOK(V, Known, "dense", runs["dense"], tool'["dense"].out[i])
           /\ ContentOK(V, Known, tool'["dense"].out[i].file, tool'["dense"].out[i].data.rows)
    BY <2>5, <2>6, <2>8
  <2> QED BY <2>7, <2>8, <2>9, <1>0, <1>1, SearchGoesOn
<1> QED BY <1>2, <1>3, <1>4

\* A relevant document is found only by searching the documents of another run: those of
\* the same run are the training documents, and the queries are for test documents.
LEMMA FindableOK ==
    ASSUME NEW V, PipeInv(V), Readable(QueriesFile(All)), NEW docs, DocsOK(V, Known, docs),
           NEW found \in SUBSET Findable(docs)
    PROVE  ResultOK(Known, Result(docs, found))
<1> DEFINE queries == files[QueriesFile(All)]
           result == Result(docs, found)
<1>1. QueriesFile(All) \in Versioned /\ QueriesFile(All)[2] = All
  BY DEF QueriesFile, Versioned, Kinds
<1>2. /\ queries.run \in Nat /\ queries.run \in Known[All]
      /\ queries.rows = V[QueriesFile(All)][queries.run]
  BY <1>1, CorpusInvOfFiles DEF PipeInv
<1>3. result.docsRun = docs.run /\ result.queriesRun = queries.run /\ result.found = found
  BY DEF Result
<1>4. found \subseteq Range(queries.rows) /\ found \subseteq Ids(docs.rows)
  BY DEF Findable
<1>5. docs.run \in Known[All] /\ docs.rows = V[TrainFile(All)][docs.run]
  BY DEF DocsOK
<1> HIDE DEF queries, result
<1>6. Range(queries.rows) \subseteq Langs \X Nat
  <2>1. CleanSplit(All, V[TrainFile(All)][queries.run], V[TestFile(All)][queries.run],
                        V[QueriesFile(All)][queries.run])
    BY <1>2 DEF PipeInv, CorpusInv, VersionsAreClean
  <2>2. queries.rows \in Seq(Langs \X Nat)
    BY <2>1, <1>2 DEF CleanSplit
  <2>3. \A A, s : s \in Seq(A) => Range(s) \subseteq A
    BY DEF Range
  <2> QED BY <2>2, <2>3, Zenon
<1>7. ASSUME docs.run = queries.run PROVE found = {}
  <2> DEFINE n == queries.run
             a == V[TrainFile(All)][n]
             b == V[TestFile(All)][n]
             c == V[QueriesFile(All)][n]
  <2>1. CleanSplit(All, a, b, c)
    BY <1>2 DEF PipeInv, CorpusInv, VersionsAreClean
  <2>2. docs.rows = a /\ queries.rows = c
    BY <1>2, <1>5, <1>7
  <2> HIDE DEF a, b, c
  <2>3. Range(c) \subseteq Ids(b) /\ Ids(a) \cap Ids(b) = {}
    BY <2>1, SplitCounts
  <2> QED BY <2>2, <2>3, <1>4
<1>8. ResultOK(Known, result)
  BY <1>2, <1>3, <1>4, <1>5, <1>6, <1>7 DEF ResultOK
<1> QED BY <1>8 DEF result

\* A result that is saved.
LEMMA SavedResult ==
    ASSUME NEW V, PipeInv(V), Readable(QueriesFile(All)), NEW t \in {"dense", "baseline"},
           DocsOK(V, Known, tool[t].docs), NEW found \in SUBSET Findable(tool[t].docs),
           NEW method \in {"dense", "bm25", "translate"}, Owner(<<method, All>>) = t,
           NEW w, w = Write(t, <<method, All>>, Result(tool[t].docs, found))
    PROVE  WriteOK(V, Known, t, runs[t], w) /\ ContentOK(V, Known, w.file, w.data.rows)
<1> DEFINE f == <<method, All>>
           result == Result(tool[t].docs, found)
<1>1. f \in ResultFiles /\ f # Embeddings /\ f \in ResultFiles \cup {Embeddings, Report}
  BY DEF ResultFiles, Embeddings
<1>2. ResultOK(Known, result)
  BY FindableOK
<1>3. Owner(f) = t /\ w = Write(t, f, result)
  OBVIOUS
<1> HIDE DEF f, result
<1>4. WriteOK(V, Known, t, runs[t], w)
  BY <1>1, <1>3, OthersWrite
<1>5. w.file = f /\ w.data.rows = result
  BY <1>3, WriteHasItsFile, WriteHasItsContent
<1> QED BY <1>1, <1>2, <1>4, <1>5 DEF ContentOK

LEMMA EvaluateDenseStep ==
    ASSUME NEW V, PipeInv(V), EvaluateDense
    PROVE  PipeInv(V)'
<1>0. /\ "dense" \in Tools /\ "evaluate" \in UsingDocs /\ "finish" \notin Stopped
      /\ DOMAIN tool = Tools /\ DOMAIN tool["dense"] = Fields
  BY TheTools DEF UsingDocs, Stopped, Errors, PipeInv, CorpusInv, Shape, ScriptOK
<1>1. /\ At("dense", "evaluate") /\ UNCHANGED <<files, runs, db>>
      /\ tool["dense"].pc = "evaluate" /\ tool["dense"].out = <<>>
  BY DEF EvaluateDense, At
<1>2. CASE \E outcome \in Stopped : Stop("dense", outcome)
  BY <1>0, <1>1, <1>2, OthersStop
<1>3. CASE \A outcome \in Stopped : ~Stop("dense", outcome)
  <2> DEFINE docs == tool["dense"].docs
  <2>1. /\ Readable(QueriesFile(All))
        /\ \E found \in SUBSET Findable(docs) :
               tool' = [tool EXCEPT !["dense"].out =
                           <<Write("dense", <<"dense", All>>, Result(docs, found))>>,
                        !["dense"].pc = "finish"]
    <3>1. ReadError(QueriesFile(All)) \in Stopped /\ "IndexError" \in Stopped
      BY DEF ReadError, Stopped, Errors
    <3> QED BY <1>3, <3>1 DEF EvaluateDense
  <2>2. PICK found \in SUBSET Findable(docs) :
               tool' = [tool EXCEPT !["dense"].out =
                           <<Write("dense", <<"dense", All>>, Result(docs, found))>>,
                        !["dense"].pc = "finish"]
    BY <2>1
  <2> DEFINE w == Write("dense", <<"dense", All>>, Result(docs, found))
  <2>3. DocsOK(V, Known, docs)
    BY <1>0, <1>1 DEF PipeInv, MemoryOK
  <2>4. Owner(<<"dense", All>>) = "dense"
    BY DEF Owner, Kinds
  <2>5. WriteOK(V, Known, "dense", runs["dense"], w) /\ ContentOK(V, Known, w.file, w.data.rows)
    BY <2>1, <2>3, <2>4, SavedResult
  <2> HIDE DEF w
  <2>6. /\ DOMAIN tool' = Tools /\ \A u \in Tools \ {"dense"} : tool'[u] = tool[u]
        /\ DOMAIN tool'["dense"] = Fields /\ tool'["dense"].open = tool["dense"].open
        /\ tool'["dense"].out = <<w>> /\ tool'["dense"].pc = "finish"
        /\ tool'["dense"].lang = tool["dense"].lang /\ tool'["dense"].docs = docs
    BY <2>2, <1>0, <1>1 DEF Fields, w
  <2>7. /\ tool'["dense"].out \in Seq(Range(tool'["dense"].out))
        /\ \A i \in DOMAIN tool'["dense"].out : tool'["dense"].out[i] = w
    BY <2>6, ShortSequences
  <2> QED BY <2>5, <2>6, <2>7, <1>0, <1>1, SearchGoesOn
<1> QED BY <1>2, <1>3

LEMMA FinishStep ==
    ASSUME NEW V, PipeInv(V), NEW t \in {"dense", "baseline", "evaluation"}, Finish(t)
    PROVE  PipeInv(V)'
<1>1. /\ t \in Tools /\ t # "preprocess" /\ t # "seed" /\ tool[t].pc # "idle"
      /\ Stop(t, "done") /\ UNCHANGED <<files, runs, db>> /\ "done" \in Stopped
  BY TheTools DEF Finish, At, Stopped
<1> QED BY <1>1, OthersStop

LEMMA DenseStep ==
    ASSUME NEW V, PipeInv(V), dense_retrieval
    PROVE  PipeInv(V)'
<1>1. CASE StartDense
  <2>1. PICK mode \in {"encode", "evaluate"} :
          Start("dense", [Blank EXCEPT !.pc = "load", !.asked = {mode}])
    BY <1>1 DEF StartDense
  <2> DEFINE memory == [Blank EXCEPT !.pc = "load", !.asked = {mode}]
  <2>2. /\ DOMAIN memory = Fields /\ memory.open = FALSE /\ memory.out = <<>>
        /\ memory.lang = 1 /\ memory.pc = "load"
    BY DEF Blank, Fields
  <2> HIDE DEF memory
  <2>3. Start("dense", memory) /\ UNCHANGED db
    BY <2>1, <1>1 DEF memory, StartDense
  <2> QED BY <2>2, <2>3, TheTools, OthersStart
<1>2. CASE build_index
  <2>1. /\ At("dense", "index") /\ UNCHANGED <<files, runs, db>> /\ tool["dense"].out = <<>>
        /\ tool["dense"].pc # "idle" /\ "done" \in Stopped /\ "IndexError" \in Stopped
    BY <1>2 DEF build_index, At, Stopped, Errors
  <2>2. CASE Stop("dense", "done") \/ Stop("dense", "IndexError")
    BY <2>1, <2>2, TheTools, OthersStop
  <2>3. CASE ~(Stop("dense", "done") \/ Stop("dense", "IndexError"))
    <3>1. tool' = [tool EXCEPT !["dense"].pc = "evaluate"]
      BY <1>2, <2>3 DEF build_index
    <3>2. /\ DOMAIN tool' = Tools /\ \A u \in Tools \ {"dense"} : tool'[u] = tool[u]
          /\ DOMAIN tool'["dense"] = Fields /\ tool'["dense"].open = tool["dense"].open
          /\ tool'["dense"].out = <<>> /\ tool'["dense"].pc = "evaluate"
          /\ tool'["dense"].lang = tool["dense"].lang /\ tool'["dense"].docs = tool["dense"].docs
      BY <3>1, <2>1, TheTools DEF PipeInv, CorpusInv, Shape, ScriptOK, Fields
    <3>3. "index" \in UsingDocs /\ "evaluate" \notin Stopped
      BY DEF UsingDocs, Stopped, Errors
    <3> QED BY <3>2, <3>3, <2>1, ShortSequences, SearchGoesOn
  <2> QED BY <2>2, <2>3
<1> QED BY <1>1, <1>2, LoadStep, EncodeStep, EvaluateDenseStep, FinishStep DEF dense_retrieval

LEMMA EvaluateBaselineStep ==
    ASSUME NEW V, PipeInv(V), EvaluateBaseline
    PROVE  PipeInv(V)'
<1>0. /\ "baseline" \in Tools /\ "evaluate" \in UsingDocs /\ "finish" \notin Stopped
      /\ DOMAIN tool = Tools /\ DOMAIN tool["baseline"] = Fields
  BY TheTools DEF UsingDocs, Stopped, Errors, PipeInv, CorpusInv, Shape, ScriptOK
<1>1. /\ At("baseline", "evaluate") /\ UNCHANGED <<files, runs, db>>
      /\ tool["baseline"].pc = "evaluate" /\ tool["baseline"].out = <<>>
  BY DEF EvaluateBaseline, At
<1>2. CASE Stop("baseline", ReadError(QueriesFile(All)))
  <2>1. ReadError(QueriesFile(All)) \in Stopped
    BY DEF ReadError, Stopped, Errors
  <2> QED BY <2>1, <1>0, <1>1, <1>2, OthersStop
<1>3. CASE ~Stop("baseline", ReadError(QueriesFile(All)))
  <2> DEFINE docs == tool["baseline"].docs
             asked == tool["baseline"].asked
             Saved(method, found) ==
                 IF method \in asked
                 THEN <<Write("baseline", <<method, All>>, Result(docs, found))>> ELSE <<>>
  <2>1. /\ Readable(QueriesFile(All))
        /\ \E bm25, translate \in SUBSET Findable(docs) :
             tool' = [tool EXCEPT !["baseline"].out = Saved("bm25", bm25)
                                                      \o Saved("translate", translate),
                                  !["baseline"].pc = "finish"]
    BY <1>3 DEF EvaluateBaseline
  <2>2. PICK bm25 \in SUBSET Findable(docs), translate \in SUBSET Findable(docs) :
             tool' = [tool EXCEPT !["baseline"].out = Saved("bm25", bm25)
                                                      \o Saved("translate", translate),
                                  !["baseline"].pc = "finish"]
    BY <2>1
  <2> DEFINE first == Saved("bm25", bm25)
             second == Saved("translate", translate)
             v == Write("baseline", <<"bm25", All>>, Result(docs, bm25))
             w == Write("baseline", <<"translate", All>>, Result(docs, translate))
  <2>3. (first = <<>> \/ first = <<v>>) /\ (second = <<>> \/ second = <<w>>)
    BY Zenon
  <2>4. DocsOK(V, Known, docs)
    BY <1>0, <1>1 DEF PipeInv, MemoryOK
  <2>5. Owner(<<"bm25", All>>) = "baseline" /\ Owner(<<"translate", All>>) = "baseline"
    BY DEF Owner, Kinds
  <2>6. WriteOK(V, Known, "baseline", runs["baseline"], v) /\ ContentOK(V, Known, v.file, v.data.rows)
    BY <2>1, <2>4, <2>5, SavedResult
  <2>7. WriteOK(V, Known, "baseline", runs["baseline"], w) /\ ContentOK(V, Known, w.file, w.data.rows)
    BY <2>1, <2>4, <2>5, SavedResult
  <2>8. tool' = [tool EXCEPT !["baseline"].out = first \o second, !["baseline"].pc = "finish"]
    BY <2>2
  <2> HIDE DEF first, second, v, w, Saved
  <2>9. /\ DOMAIN tool' = Tools /\ \A u \in Tools \ {"baseline"} : tool'[u] = tool[u]
        /\ DOMAIN tool'["baseline"] = Fields /\ tool'["baseline"].open = tool["baseline"].open
        /\ tool'["baseline"].out = first \o second /\ tool'["baseline"].pc = "finish"
        /\ tool'["baseline"].lang = tool["baseline"].lang /\ tool'["baseline"].docs = docs
    BY <2>8, <1>0, <1>1 DEF Fields
  <2>10. first \o second = <<>> \/ first \o second = <<v>> \/ first \o second = <<w>>
         \/ first \o second = <<v, w>>
    BY <2>3, ShortConcats
  <2>11. /\ tool'["baseline"].out \in Seq(Range(tool'["baseline"].out))
         /\ \A i \in DOMAIN tool'["baseline"].out :
               tool'["baseline"].out[i] = v \/ tool'["baseline"].out[i] = w
    <3>1. ASSUME NEW s, s = <<>> \/ s = <<v>> \/ s = <<w>> \/ s = <<v, w>>
          PROVE  s \in Seq(Range(s)) /\ \A i \in DOMAIN s : s[i] = v \/ s[i] = w
      <4>1. CASE s = <<>>
        BY <4>1, ShortSequences
      <4>2. CASE s = <<v>> \/ s = <<w>>
        BY <4>2, ShortSequences
      <4>3. CASE s = <<v, w>>
        BY <4>3, ShortSequences
      <4> QED BY <3>1, <4>1, <4>2, <4>3
    <3> QED BY <3>1, <2>9, <2>10
  <2> QED BY <2>6, <2>7, <2>9, <2>11, <1>0, <1>1, SearchGoesOn
<1> QED BY <1>2, <1>3

LEMMA BaselineStep ==
    ASSUME NEW V, PipeInv(V), baseline
    PROVE  PipeInv(V)'
<1>1. CASE StartBaseline
  <2>1. PICK methods \in (SUBSET {"bm25", "translate"}) \ {{}} :
          Start("baseline", [Blank EXCEPT !.pc = "load", !.asked = methods])
    BY <1>1 DEF StartBaseline
  <2> DEFINE memory == [Blank EXCEPT !.pc = "load", !.asked = methods]
  <2>2. /\ DOMAIN memory = Fields /\ memory.open = FALSE /\ memory.out = <<>>
        /\ memory.lang = 1 /\ memory.pc = "load"
    BY DEF Blank, Fields
  <2> HIDE DEF memory
  <2>3. Start("baseline", memory) /\ UNCHANGED db
    BY <2>1, <1>1 DEF memory, StartBaseline
  <2> QED BY <2>2, <2>3, TheTools, OthersStart
<1>2. CASE build_bm25_index
  <2>1. /\ At("baseline", "index") /\ UNCHANGED <<files, runs, db>> /\ tool["baseline"].out = <<>>
        /\ tool["baseline"].pc # "idle" /\ "ZeroDivisionError" \in Stopped
    BY <1>2 DEF build_bm25_index, At, Stopped, Errors
  <2>2. CASE Stop("baseline", "ZeroDivisionError")
    BY <2>1, <2>2, TheTools, OthersStop
  <2>3. CASE ~Stop("baseline", "ZeroDivisionError")
    <3>1. tool' = [tool EXCEPT !["baseline"].pc = "evaluate"]
      BY <1>2, <2>3 DEF build_bm25_index
    <3>2. /\ DOMAIN tool' = Tools /\ \A u \in Tools \ {"baseline"} : tool'[u] = tool[u]
          /\ DOMAIN tool'["baseline"] = Fields /\ tool'["baseline"].open = tool["baseline"].open
          /\ tool'["baseline"].out = <<>> /\ tool'["baseline"].pc = "evaluate"
          /\ tool'["baseline"].lang = tool["baseline"].lang
          /\ tool'["baseline"].docs = tool["baseline"].docs
      BY <3>1, <2>1, TheTools DEF PipeInv, CorpusInv, Shape, ScriptOK, Fields
    <3>3. "index" \in UsingDocs /\ "evaluate" \notin Stopped
      BY DEF UsingDocs, Stopped, Errors
    <3> QED BY <3>2, <3>3, <2>1, ShortSequences, SearchGoesOn
  <2> QED BY <2>2, <2>3
<1> QED BY <1>1, <1>2, LoadStep, EvaluateBaselineStep, FinishStep DEF baseline

LEMMA EvaluationStep ==
    ASSUME NEW V, PipeInv(V), evaluation
    PROVE  PipeInv(V)'
<1>0. /\ "evaluation" \in Tools /\ DOMAIN tool = Tools /\ DOMAIN tool["evaluation"] = Fields
  BY TheTools DEF PipeInv, CorpusInv, Shape, ScriptOK
<1>1. CASE StartEvaluation
  <2> DEFINE memory == [Blank EXCEPT !.pc = "report"]
  <2>1. /\ DOMAIN memory = Fields /\ memory.open = FALSE /\ memory.out = <<>>
        /\ memory.lang = 1 /\ memory.pc = "report"
    BY DEF Blank, Fields
  <2> HIDE DEF memory
  <2>2. Start("evaluation", memory) /\ UNCHANGED db
    BY <1>1 DEF memory, StartEvaluation
  <2> QED BY <2>1, <2>2, TheTools, OthersStart
<1>2. CASE GenerateReport
  <2>1. /\ At("evaluation", "report") /\ UNCHANGED <<files, runs, db>>
        /\ tool["evaluation"].pc = "report" /\ tool["evaluation"].out = <<>>
        /\ "FileNotFoundError" \in Stopped /\ "ParseError" \in Stopped
    BY <1>2 DEF GenerateReport, At, Stopped, Errors
  <2>2. CASE Stop("evaluation", "FileNotFoundError") \/ Stop("evaluation", "ParseError")
    BY <2>1, <2>2, <1>0, OthersStop
  <2>3. CASE ~(Stop("evaluation", "FileNotFoundError") \/ Stop("evaluation", "ParseError"))
    <3>1. PICK content :
            tool' = [tool EXCEPT !["evaluation"].pc = "finish",
                                 !["evaluation"].out = <<Write("evaluation", Report, content)>>]
      BY <1>2, <2>3 DEF GenerateReport
    <3> DEFINE w == Write("evaluation", Report, content)
    <3>2. Owner(Report) = "evaluation" /\ Report \in ResultFiles \cup {Embeddings, Report}
          /\ Report # Embeddings /\ Report \notin ResultFiles
      BY DEF Owner, Report, Embeddings, ResultFiles, Kinds
    <3>3. \A known : WriteOK(V, known, "evaluation", runs["evaluation"], w)
      BY <3>2, OthersWrite
    <3>4. w.file = Report
      BY WriteHasItsFile
    <3> HIDE DEF w
    <3>5. /\ DOMAIN tool' = Tools /\ \A u \in Tools \ {"evaluation"} : tool'[u] = tool[u]
          /\ DOMAIN tool'["evaluation"] = Fields /\ tool'["evaluation"].open = tool["evaluation"].open
          /\ tool'["evaluation"].out = <<w>> /\ tool'["evaluation"].pc = "finish"
          /\ tool'["evaluation"].lang = tool["evaluation"].lang
      BY <3>1, <1>0, <2>1 DEF Fields, w
    <3>6. /\ tool'["evaluation"].out \in Seq(Range(tool'["evaluation"].out))
          /\ \A i \in DOMAIN tool'["evaluation"].out : tool'["evaluation"].out[i] = w
      BY <3>5, ShortSequences
    <3>7. MemoryOK(V, "evaluation")'
      <4>1. Embeddings' = Embeddings /\ ResultFiles' = ResultFiles
        BY DEF Embeddings, ResultFiles
      <4> QED BY <4>1, <3>2, <3>4, <3>6 DEF MemoryOK, ContentOK
    <3>8. DbOK'
      BY <3>5, <2>1, TheTools, DbStays
    <3>9. "finish" \notin Stopped
      BY DEF Stopped, Errors
    <3>10. \A i \in DOMAIN tool'["evaluation"].out :
              WriteOK(V, Known', "evaluation", runs["evaluation"], tool'["evaluation"].out[i])
      BY <3>3, <3>6
    <3> QED BY <3>5, <3>6, <3>7, <3>8, <3>9, <3>10, <2>1, <1>0, OthersGoOn
  <2> QED BY <2>2, <2>3
<1> QED BY <1>1, <1>2, FinishStep DEF evaluation

\* The seed script has never anything to write but the database.
LEMMA SeedGoesOn ==
    ASSUME NEW V, PipeInv(V), NEW pc \in UsingDocs, At("seed", pc), UNCHANGED <<files, runs>>,
           DOMAIN tool' = Tools, \A u \in Tools \ {"seed"} : tool'[u] = tool[u],
           DOMAIN tool'["seed"] = Fields, tool'["seed"].open = tool["seed"].open,
           tool'["seed"].lang = tool["seed"].lang, tool'["seed"].docs = tool["seed"].docs,
           tool'["seed"].out = <<>>, tool'["seed"].pc \in UsingVectors,
           VectorsOK(V, Known, tool'["seed"].vectors),
           SameLength(tool["seed"].docs, tool'["seed"].vectors.vectors),
           DOMAIN db' = DOMAIN db, db'.documents \in Seq(Document),
           tool'["seed"].pc = "insert embeddings" =>
              db'.documents = tool["seed"].docs.rows /\ db'.docsRun = tool["seed"].docs.run
    PROVE  PipeInv(V)'
<1>1. "seed" \in Tools /\ tool["seed"].pc = pc /\ pc # "idle" /\ tool["seed"].out = <<>>
  BY TheTools DEF At, UsingDocs
<1>2. Known' = Known
  BY <1>1, OthersKnow, TheTools
<1>3. DocsOK(V, Known, tool["seed"].docs)
  BY <1>1 DEF PipeInv, MemoryOK
<1>4. MemoryOK(V, "seed")'
  BY <1>2, <1>3, ShortSequences DEF MemoryOK, SameLength
<1>5. tool'["seed"].pc \notin Stopped
  BY DEF UsingVectors, Stopped, Errors
<1>6. DbOK'
  <2>1. tool'["seed"].pc # "done"
    BY <1>5 DEF Stopped
  <2> QED BY <2>1 DEF PipeInv, DbOK, SeededInFull, MismatchOnlyAcrossRuns
<1> QED BY <1>1, <1>4, <1>5, <1>6, ShortSequences, OthersGoOn

LEMMA VersionsAreRows ==
    ASSUME NEW V, PipeInv(V), NEW n \in Known[All]
    PROVE  /\ V[TrainFile(All)][n] \in Seq(Document)
           /\ PagesOf(V[TrainFile(All)][n]) \in Seq(Langs \X Pages)
           /\ Len(PagesOf(V[TrainFile(All)][n])) = Len(V[TrainFile(All)][n])
<1>1. n \in Nat
  BY BoundedScripts DEF Known, PipeInv, CorpusInv, Shape, ScriptOK
<1>2. CleanSplit(All, V[TrainFile(All)][n], V[TestFile(All)][n], V[QueriesFile(All)][n])
  BY <1>1 DEF PipeInv, CorpusInv, VersionsAreClean
<1> DEFINE rows == V[TrainFile(All)][n]
<1>3. rows \in Seq(Document)
  BY <1>2 DEF CleanSplit
<1> HIDE DEF rows
<1>4. PagesOf(rows) \in Seq(Langs \X Pages) /\ Len(PagesOf(rows)) = Len(rows)
  <2>1. DOMAIN rows = 1 .. Len(rows) /\ \A i \in 1 .. Len(rows) : rows[i].page \in Langs \X Pages
    <3>1. \A d \in Document : d.page \in Langs \X Pages
      BY DEF Document
    <3>2. DOMAIN rows = 1 .. Len(rows) /\ \A i \in 1 .. Len(rows) : rows[i] \in Document
      BY <1>3
    <3> QED BY <3>1, <3>2
  <2> QED BY <2>1, <1>3 DEF PagesOf
<1> QED BY <1>3, <1>4 DEF rows

LEMMA InsertEmbeddingsStep ==
    ASSUME NEW V, PipeInv(V), InsertEmbeddings
    PROVE  PipeInv(V)'
<1> DEFINE docs == tool["seed"].docs
           cached == tool["seed"].vectors
           n == Len(docs.rows)
<1>1. /\ At("seed", "insert embeddings") /\ Stop("seed", "done") /\ UNCHANGED <<files, runs>>
      /\ db' = [db EXCEPT
            !.embeddings = [i \in DOMAIN docs.rows \cap DOMAIN cached.vectors |->
                               [id |-> docs.rows[i].id, vector |-> cached.vectors[i]]],
            !.vectorsRun = cached.docsRun]
      /\ tool["seed"].pc = "insert embeddings"
  BY DEF InsertEmbeddings, At
<1>2. /\ DocsOK(V, Known, docs) /\ VectorsOK(V, Known, cached) /\ n = Len(cached.vectors)
      /\ db.documents = docs.rows /\ db.docsRun = docs.run
  BY <1>1, TheTools DEF PipeInv, MemoryOK, SameLength, UsingDocs, UsingVectors
<1>3. docs.rows \in Seq(Document) /\ cached.vectors \in Seq(Langs \X Pages)
  BY <1>2, VersionsAreRows DEF DocsOK, VectorsOK
<1>4. n \in Nat /\ DOMAIN docs.rows = 1 .. n /\ DOMAIN cached.vectors = 1 .. n
  BY <1>2, <1>3
<1> HIDE DEF docs, cached, n
<1>5. DOMAIN db = {"documents", "embeddings", "docsRun", "vectorsRun"}
  BY DEF PipeInv, DbOK
<1>6. /\ DOMAIN db' = DOMAIN db /\ db'.documents = docs.rows /\ db'.docsRun = docs.run
      /\ db'.vectorsRun = cached.docsRun
      /\ db'.embeddings = [i \in 1 .. n |-> [id |-> docs.rows[i].id, vector |-> cached.vectors[i]]]
  BY <1>1, <1>2, <1>4, <1>5
<1>7. Only("seed") /\ tool'["seed"].pc = "done" /\ tool'["seed"].out = <<>>
  BY <1>1, TheTools, StopShape DEF PipeInv
<1>8. SeededInFull'
  <2>1. Len(db'.embeddings) = n /\ \A i \in 1 .. n : db'.embeddings[i].id = docs.rows[i].id
    BY <1>4, <1>6
  <2> QED BY <2>1, <1>4, <1>6 DEF SeededInFull, n
<1>9. MismatchOnlyAcrossRuns'
  <2>1. ASSUME docs.run = cached.docsRun, NEW i \in 1 .. n
        PROVE  db'.embeddings[i].vector = docs.rows[i].page
    <3>1. cached.vectors = PagesOf(docs.rows)
      BY <1>2, <2>1 DEF DocsOK, VectorsOK
    <3>2. cached.vectors[i] = docs.rows[i].page
      BY <3>1, <1>4 DEF PagesOf
    <3> QED BY <3>2, <1>6
  <2> QED BY <2>1, <1>4, <1>6 DEF MismatchOnlyAcrossRuns
<1>10. DbOK'
  BY <1>3, <1>5, <1>6, <1>8, <1>9 DEF DbOK
<1>11. MemoryOK(V, "seed")'
  BY <1>7, NothingInUse DEF UsingDocs
<1>12. Grown(V, V) /\ CorpusInv(V)'
  BY <1>1, TheTools, OtherStops DEF PipeInv
<1> QED BY <1>1, <1>7, <1>10, <1>11, <1>12, TheTools, PipeStep DEF Only

LEMMA SeedStep ==
    ASSUME NEW V, PipeInv(V), seed
    PROVE  PipeInv(V)'
<1>0. /\ "seed" \in Tools /\ "seed" # "preprocess" /\ DOMAIN tool = Tools
      /\ DOMAIN tool["seed"] = Fields
      /\ DOMAIN db = {"documents", "embeddings", "docsRun", "vectorsRun"}
      /\ db.documents \in Seq(Document)
  BY TheTools DEF PipeInv, DbOK, CorpusInv, Shape, ScriptOK
<1>1. CASE StartSeed
  <2> DEFINE memory == [Blank EXCEPT !.pc = "load"]
  <2>1. /\ DOMAIN memory = Fields /\ memory.open = FALSE /\ memory.out = <<>>
        /\ memory.lang = 1 /\ memory.pc = "load"
    BY DEF Blank, Fields
  <2> HIDE DEF memory
  <2>2. Start("seed", memory) /\ UNCHANGED db
    BY <1>1 DEF memory, StartSeed
  <2> QED BY <2>1, <2>2, <1>0, OthersStart
<1>2. CASE SeedEmbeddings
  <2>1. At("seed", "embeddings") /\ UNCHANGED <<files, runs, db>> /\ tool["seed"].pc = "embeddings"
        /\ tool["seed"].out = <<>> /\ "embeddings" \in UsingDocs
    BY <1>2 DEF SeedEmbeddings, At, UsingDocs
  <2>2. CASE Stop("seed", ReadError(Embeddings)) \/ Stop("seed", "AssertionError")
    <3>1. /\ ReadError(Embeddings) \in Stopped \ {"done"} /\ "AssertionError" \in Stopped
      BY DEF ReadError, Stopped, Errors
    <3> QED BY <3>1, <2>1, <2>2, <1>0, OthersStop
  <2>3. CASE ~(Stop("seed", ReadError(Embeddings)) \/ Stop("seed", "AssertionError"))
    <3>1. /\ Readable(Embeddings)
          /\ SameLength(tool["seed"].docs, files[Embeddings].rows.vectors)
          /\ tool' = [tool EXCEPT !["seed"].vectors = files[Embeddings].rows,
                                  !["seed"].pc = "truncate"]
      BY <1>2, <2>3 DEF SeedEmbeddings
    <3>2. VectorsOK(V, Known, files[Embeddings].rows)
      <4>1. Embeddings \in FileNames
        BY DEF FileNames
      <4> QED BY <4>1, <3>1 DEF PipeInv, ContentOK
    <3>3. /\ DOMAIN tool' = Tools /\ \A u \in Tools \ {"seed"} : tool'[u] = tool[u]
          /\ DOMAIN tool'["seed"] = Fields /\ tool'["seed"].open = tool["seed"].open
          /\ tool'["seed"].out = <<>> /\ tool'["seed"].pc = "truncate"
          /\ tool'["seed"].lang = tool["seed"].lang /\ tool'["seed"].docs = tool["seed"].docs
          /\ tool'["seed"].vectors = files[Embeddings].rows
      BY <3>1, <2>1, <1>0 DEF Fields
    <3>4. "truncate" \in UsingVectors
      BY DEF UsingVectors
    <3> QED BY <3>1, <3>2, <3>3, <3>4, <2>1, <1>0, SeedGoesOn
  <2> QED BY <2>2, <2>3
<1>3. ASSUME NEW pc \in UsingVectors, tool["seed"].pc = pc
      PROVE  /\ pc \in UsingDocs /\ VectorsOK(V, Known, tool["seed"].vectors)
             /\ SameLength(tool["seed"].docs, tool["seed"].vectors.vectors)
             /\ tool["seed"].docs.rows \in Seq(Document)
  <2>1. pc \in UsingDocs
    BY DEF UsingDocs, UsingVectors
  <2>2. /\ VectorsOK(V, Known, tool["seed"].vectors) /\ DocsOK(V, Known, tool["seed"].docs)
        /\ SameLength(tool["seed"].docs, tool["seed"].vectors.vectors)
    BY <1>0, <1>3, <2>1 DEF PipeInv, MemoryOK
  <2> QED BY <2>1, <2>2, VersionsAreRows DEF DocsOK
<1>4. CASE SeedTruncate
  <2>1. /\ At("seed", "truncate") /\ UNCHANGED <<files, runs>> /\ tool["seed"].pc = "truncate"
        /\ tool["seed"].out = <<>> /\ "truncate" \in UsingVectors
        /\ db' = [db EXCEPT !.documents = <<>>, !.embeddings = <<>>]
        /\ tool' = [tool EXCEPT !["seed"].pc = "insert documents"]
    BY <1>4 DEF SeedTruncate, At, UsingVectors
  <2>2. /\ DOMAIN tool' = Tools /\ \A u \in Tools \ {"seed"} : tool'[u] = tool[u]
        /\ DOMAIN tool'["seed"] = Fields /\ tool'["seed"].open = tool["seed"].open
        /\ tool'["seed"].out = <<>> /\ tool'["seed"].pc = "insert documents"
        /\ tool'["seed"].lang = tool["seed"].lang /\ tool'["seed"].docs = tool["seed"].docs
        /\ tool'["seed"].vectors = tool["seed"].vectors
    BY <2>1, <1>0 DEF Fields
  <2>3. "insert documents" \in UsingVectors /\ DOMAIN db' = DOMAIN db /\ db'.documents \in Seq(Document)
    <3>1. DOMAIN db' = DOMAIN db /\ db'.documents = <<>>
      BY <2>1, <1>0
    <3>2. <<>> \in Seq(Document)
      OBVIOUS
    <3> QED BY <3>1, <3>2 DEF UsingVectors
  <2> QED BY <2>1, <2>2, <2>3, <1>3, SeedGoesOn
<1>5. CASE InsertDocuments
  <2>1. /\ At("seed", "insert documents") /\ UNCHANGED <<files, runs>>
        /\ tool["seed"].pc = "insert documents"
        /\ tool["seed"].out = <<>> /\ "insert documents" \in UsingVectors
    BY <1>5 DEF InsertDocuments, At, UsingVectors
  <2>2. CASE Stop("seed", "UniqueViolation") /\ UNCHANGED db
    <3>1. "UniqueViolation" \in Stopped
      BY DEF Stopped, Errors
    <3> QED BY <3>1, <2>1, <2>2, <1>0, OthersStop
  <2>3. CASE ~(Stop("seed", "UniqueViolation") /\ UNCHANGED db)
    <3>1. /\ db' = [db EXCEPT !.documents = tool["seed"].docs.rows, !.docsRun = tool["seed"].docs.run]
          /\ tool' = [tool EXCEPT !["seed"].pc = "insert embeddings"]
      BY <1>5, <2>3 DEF InsertDocuments
    <3>2. /\ DOMAIN tool' = Tools /\ \A u \in Tools \ {"seed"} : tool'[u] = tool[u]
          /\ DOMAIN tool'["seed"] = Fields /\ tool'["seed"].open = tool["seed"].open
          /\ tool'["seed"].out = <<>> /\ tool'["seed"].pc = "insert embeddings"
          /\ tool'["seed"].lang = tool["seed"].lang /\ tool'["seed"].docs = tool["seed"].docs
          /\ tool'["seed"].vectors = tool["seed"].vectors
      BY <3>1, <2>1, <1>0 DEF Fields
    <3>3. /\ "insert embeddings" \in UsingVectors /\ DOMAIN db' = DOMAIN db
          /\ db'.documents = tool["seed"].docs.rows /\ db'.docsRun = tool["seed"].docs.run
      BY <3>1, <1>0 DEF UsingVectors
    <3> QED BY <3>2, <3>3, <2>1, <1>3, SeedGoesOn
  <2> QED BY <2>2, <2>3
<1> QED BY <1>1, <1>2, <1>4, <1>5, LoadStep, InsertEmbeddingsStep DEF seed

-----------------------------------------------------------------------------
(* The vectors in the memory of dense_retrieval.py.                        *)

\* They are those of the cache file, or this run is about to write them there.
CacheInHand ==
    LET now == tool["dense"] IN
    now.pc \in {"index", "evaluate"} =>
        \/ now.out = <<>> /\ (Readable(Embeddings) => files[Embeddings].rows.vectors = now.vectors)
        \/ /\ now.pc = "index"
           /\ \E w : /\ now.out = <<w>> /\ w.file = Embeddings
                     /\ w.data.rows.vectors = now.vectors

LEMMA DenseMovesAlone ==
    ASSUME NEW V, CorpusInv(V), dense_retrieval
    PROVE  /\ \A u \in Tools \ {"dense"} : tool'[u] = tool[u] /\ runs'[u] = runs[u]
           /\ UNCHANGED files
<1>1. CASE StartDense \/ Finish("dense") \/ build_index
  BY <1>1, TheTools DEF CorpusInv, Shape, StartDense, Finish, build_index, Start, Stop
<1>2. CASE load_documents("dense", "encode")
  BY <1>2, TheTools DEF CorpusInv, Shape, load_documents, Stop
<1>3. CASE encode_documents
  BY <1>3, TheTools DEF CorpusInv, Shape, encode_documents, Stop
<1>4. CASE EvaluateDense
  BY <1>4, TheTools DEF CorpusInv, Shape, EvaluateDense, Stop
<1> QED BY <1>1, <1>2, <1>3, <1>4 DEF dense_retrieval

LEMMA BaselineMovesAlone ==
    ASSUME NEW V, CorpusInv(V), baseline
    PROVE  /\ \A u \in Tools \ {"baseline"} : tool'[u] = tool[u] /\ runs'[u] = runs[u]
           /\ UNCHANGED files
<1>1. CASE StartBaseline \/ Finish("baseline") \/ build_bm25_index
  BY <1>1, TheTools DEF CorpusInv, Shape, StartBaseline, Finish, build_bm25_index, Start, Stop
<1>2. CASE load_documents("baseline", "index")
  BY <1>2, TheTools DEF CorpusInv, Shape, load_documents, Stop
<1>3. CASE EvaluateBaseline
  BY <1>3, TheTools DEF CorpusInv, Shape, EvaluateBaseline, Stop
<1> QED BY <1>1, <1>2, <1>3 DEF baseline

LEMMA EvaluationMovesAlone ==
    ASSUME NEW V, CorpusInv(V), evaluation
    PROVE  /\ \A u \in Tools \ {"evaluation"} : tool'[u] = tool[u] /\ runs'[u] = runs[u]
           /\ UNCHANGED files
<1>1. CASE StartEvaluation \/ Finish("evaluation")
  BY <1>1, TheTools DEF CorpusInv, Shape, StartEvaluation, Finish, Start, Stop
<1>2. CASE GenerateReport
  BY <1>2, TheTools DEF CorpusInv, Shape, GenerateReport, Stop
<1> QED BY <1>1, <1>2 DEF evaluation

LEMMA SeedMovesAlone ==
    ASSUME NEW V, CorpusInv(V), seed
    PROVE  /\ \A u \in Tools \ {"seed"} : tool'[u] = tool[u] /\ runs'[u] = runs[u]
           /\ UNCHANGED files
<1>1. CASE StartSeed \/ SeedTruncate \/ InsertDocuments \/ InsertEmbeddings
  BY <1>1, TheTools DEF CorpusInv, Shape, StartSeed, SeedTruncate, InsertDocuments,
                        InsertEmbeddings, Start, Stop
<1>2. CASE load_documents("seed", "embeddings")
  BY <1>2, TheTools DEF CorpusInv, Shape, load_documents, Stop
<1>3. CASE SeedEmbeddings
  BY <1>3, TheTools DEF CorpusInv, Shape, SeedEmbeddings, Stop
<1> QED BY <1>1, <1>2, <1>3 DEF seed

\* While dense_retrieval.py does nothing, and no one its work.
LEMMA CacheStays ==
    ASSUME CacheInHand, tool'["dense"] = tool["dense"], files'[Embeddings] = files[Embeddings]
    PROVE  CacheInHand'
<1>1. Readable(Embeddings)' <=> Readable(Embeddings)
  BY DEF Readable, Embeddings
<1> QED BY <1>1 DEF CacheInHand, Embeddings

LEMMA CacheOpened ==
    ASSUME NEW V, PipeInv(V), CacheInHand, NEW t \in Tools, OpenFile(t)
    PROVE  CacheInHand'
<1> DEFINE f == Head(tool[t].out).file
<1>1. /\ tool[t].out # <<>> /\ files' = [files EXCEPT ![f] = Torn]
      /\ tool' = [tool EXCEPT ![t].open = TRUE] /\ DOMAIN tool = Tools /\ DOMAIN files = FileNames
      /\ DOMAIN tool[t] = Fields
  BY DEF OpenFile, PipeInv, CorpusInv, Shape, ScriptOK
<1>2. f \in FileNames /\ Owner(f) = t
  BY <1>1, NextWrite DEF WriteOK, PipeInv
<1>3. CASE t # "dense"
  <2>1. f # Embeddings
    BY <1>2, <1>3 DEF Owner, Embeddings, Kinds
  <2>2. Embeddings \in FileNames
    BY DEF FileNames
  <2> QED BY <1>1, <1>3, <2>1, <2>2, TheTools, CacheStays
<1>4. CASE t = "dense"
  <2>1. /\ tool'["dense"].pc = tool["dense"].pc /\ tool'["dense"].out = tool["dense"].out
        /\ tool'["dense"].vectors = tool["dense"].vectors
    BY <1>1, <1>4 DEF Fields
  <2> QED BY <1>1, <1>4, <2>1 DEF CacheInHand, Embeddings
<1> QED BY <1>3, <1>4

LEMMA CacheClosed ==
    ASSUME NEW V, PipeInv(V), CacheInHand, NEW t \in Tools, CloseFile(t)
    PROVE  CacheInHand'
<1> DEFINE f == Head(tool[t].out).file
           data == Head(tool[t].out).data
<1>1. /\ tool[t].out # <<>> /\ files' = [files EXCEPT ![f] = data]
      /\ tool' = [tool EXCEPT ![t].open = FALSE, ![t].out = Tail(@)]
      /\ DOMAIN tool = Tools /\ DOMAIN files = FileNames /\ DOMAIN tool[t] = Fields
  BY DEF CloseFile, PipeInv, CorpusInv, Shape, ScriptOK
<1>2. f \in FileNames /\ Owner(f) = t
  BY <1>1, NextWrite DEF WriteOK, PipeInv
<1>3. CASE t # "dense"
  <2>1. f # Embeddings
    BY <1>2, <1>3 DEF Owner, Embeddings, Kinds
  <2>2. Embeddings \in FileNames
    BY DEF FileNames
  <2> QED BY <1>1, <1>3, <2>1, <2>2, TheTools, CacheStays
<1>4. CASE t = "dense"
  <2>1. /\ tool'["dense"].pc = tool["dense"].pc /\ tool'["dense"].out = Tail(tool["dense"].out)
        /\ tool'["dense"].vectors = tool["dense"].vectors
    BY <1>1, <1>4 DEF Fields
  <2> SUFFICES ASSUME tool["dense"].pc \in {"index", "evaluate"}
               PROVE  /\ tool'["dense"].out = <<>>
                      /\ files'[Embeddings].rows.vectors = tool["dense"].vectors
    BY <2>1 DEF CacheInHand, Embeddings
  <2>2. PICK w : /\ tool["dense"].out = <<w>> /\ w.file = Embeddings
                 /\ w.data.rows.vectors = tool["dense"].vectors
    BY <1>1, <1>4 DEF CacheInHand
  <2>3. Head(<<w>>) = w /\ Tail(<<w>>) = <<>>
    OBVIOUS
  <2>4. f = Embeddings /\ data = w.data
    BY <1>4, <2>2, <2>3, Zenon
  <2>5. files'[Embeddings] = w.data
    BY <1>1, <1>2, <2>4
  <2> QED BY <2>1, <2>2, <2>3, <2>5, Zenon
<1> QED BY <1>3, <1>4

LEMMA DenseKeepsCacheInHand ==
    ASSUME NEW V, PipeInv(V), CacheInHand, dense_retrieval
    PROVE  CacheInHand'
<1>0. /\ "dense" \in Tools /\ DOMAIN tool = Tools /\ DOMAIN tool["dense"] = Fields
      /\ UNCHANGED files /\ Embeddings' = Embeddings
  BY TheTools, DenseMovesAlone DEF PipeInv, CorpusInv, Shape, ScriptOK, Embeddings
<1>1. CASE tool'["dense"].pc \notin {"index", "evaluate"}
  BY <1>1 DEF CacheInHand
<1>2. CASE encode_documents
  <2>1. tool["dense"].out = <<>>
    BY <1>2 DEF encode_documents, At
  <2>2. CASE Stop("dense", ReadError(Embeddings))
    <3>1. tool'["dense"].pc = ReadError(Embeddings)
      BY <2>2, <1>0 DEF Stop, Blank
    <3> QED BY <3>1, <1>1 DEF ReadError
  <2>3. CASE tool' = [tool EXCEPT !["dense"].vectors = files[Embeddings].rows.vectors,
                                  !["dense"].pc = "index"]
    BY <2>1, <2>3, <1>0 DEF CacheInHand, Fields
  <2>4. CASE tool' = [tool EXCEPT
                !["dense"].vectors = Encoded(tool["dense"].docs),
                !["dense"].out = <<Write("dense", Embeddings,
                                    [docsRun |-> tool["dense"].docs.run,
                                     vectors |-> Encoded(tool["dense"].docs)])>>,
                !["dense"].pc = "index"]
    <3> DEFINE vectors == Encoded(tool["dense"].docs)
               w == Write("dense", Embeddings,
                          [docsRun |-> tool["dense"].docs.run, vectors |-> vectors])
    <3>1. w.file = Embeddings /\ w.data.rows.vectors = vectors
      BY DEF Write
    <3> HIDE DEF vectors, w
    <3>2. /\ tool'["dense"].pc = "index" /\ tool'["dense"].out = <<w>>
          /\ tool'["dense"].vectors = vectors
      BY <2>4, <1>0 DEF Fields, vectors, w
    <3> QED BY <3>1, <3>2, <1>0 DEF CacheInHand
  <2> QED BY <1>2, <2>2, <2>3, <2>4 DEF encode_documents
<1>3. CASE build_index /\ tool' = [tool EXCEPT !["dense"].pc = "evaluate"]
  <2>1. tool["dense"].out = <<>> /\ tool["dense"].pc = "index"
    BY <1>3 DEF build_index, At
  <2>2. \A w : <<>> # <<w>>
    OBVIOUS
  <2>3. Readable(Embeddings) => files[Embeddings].rows.vectors = tool["dense"].vectors
    BY <2>1, <2>2 DEF CacheInHand
  <2> QED BY <2>1, <2>3, <1>0, <1>3 DEF CacheInHand, Fields, Readable
<1>4. CASE build_index /\ tool' # [tool EXCEPT !["dense"].pc = "evaluate"]
  <2>1. Stop("dense", "done") \/ Stop("dense", "IndexError")
    BY <1>4 DEF build_index
  <2> QED BY <2>1, <1>0, <1>1 DEF Stop, Blank
<1>5. CASE StartDense \/ load_documents("dense", "encode") \/ Finish("dense")
  <2>1. tool'["dense"].pc \in {"load", "encode", "done", "FileNotFoundError", "ParseError"}
    BY <1>0, <1>5 DEF StartDense, Start, load_documents, Finish, Stop, Blank, ReadError, Fields
  <2> QED BY <2>1, <1>1
<1>6. CASE EvaluateDense
  <2>1. tool'["dense"].pc \in {"finish", "IndexError", "FileNotFoundError", "ParseError"}
    BY <1>0, <1>6 DEF EvaluateDense, Stop, Blank, ReadError, Fields
  <2> QED BY <2>1, <1>1
<1> QED BY <1>2, <1>3, <1>4, <1>5, <1>6 DEF dense_retrieval

\* What is known of torn files, of the collection and of the cache holds on.
HandsOK == TornOK /\ CollectionOK /\ CacheInHand

LEMMA HandsStep ==
    ASSUME NEW V, PipeInv(V), HandsOK, [Next]_vars
    PROVE  HandsOK'
<1>0. /\ CorpusInv(V) /\ TornOK /\ CollectionOK /\ CacheInHand
      /\ Embeddings' = Embeddings
  BY DEF PipeInv, HandsOK, Embeddings
<1>1. CASE collect_all_languages \/ process_all_languages
  <2>1. TornOK' /\ CollectionOK'
    BY <1>0, <1>1, CollectGoesOn, PreprocessLeavesThem
  <2>2. tool'["dense"] = tool["dense"] /\ UNCHANGED files
    BY <1>0, <1>1, TheTools, CollectMovesAlone, PreprocessMovesAlone
  <2> QED BY <2>1, <2>2, <1>0, CacheStays DEF HandsOK
<1>2. CASE \E t \in Tools : OpenFile(t) \/ CloseFile(t) \/ Interrupt(t)
  <2>1. PICK t \in Tools : OpenFile(t) \/ CloseFile(t) \/ Interrupt(t)
    BY <1>2
  <2>2. TornOK' /\ CollectionOK'
    BY <1>0, <2>1, OpeningTears, ClosingMends, InterruptingExcuses
  <2>3. CacheInHand'
    <3>1. CASE Interrupt(t)
      <4>1. /\ tool' = [tool EXCEPT ![t] = [Blank EXCEPT !.pc = "interrupted"]]
            /\ UNCHANGED files /\ DOMAIN tool = Tools
        BY <3>1, <1>0 DEF Interrupt, Stop, CorpusInv, Shape
      <4>2. CASE t = "dense"
        <5>1. tool'["dense"].pc = "interrupted"
          BY <4>1, <4>2 DEF Blank
        <5> QED BY <5>1 DEF CacheInHand
      <4>3. CASE t # "dense"
        BY <4>1, <4>3, <1>0, TheTools, CacheStays
      <4> QED BY <4>2, <4>3
    <3> QED BY <3>1, <2>1, <1>0, CacheOpened, CacheClosed
  <2> QED BY <2>2, <2>3 DEF HandsOK
<1>3. CASE dense_retrieval
  <2>1. \A u \in {"collect", "preprocess"} : tool'[u] = tool[u] /\ runs'[u] = runs[u]
    BY <1>0, <1>3, DenseMovesAlone, TheTools
  <2>2. UNCHANGED files
    BY <1>0, <1>3, DenseMovesAlone
  <2> QED BY <1>0, <1>3, <2>1, <2>2, OthersLeaveThem, DenseKeepsCacheInHand DEF HandsOK
<1>4. CASE baseline \/ evaluation \/ seed
  <2>1. /\ \A u \in {"collect", "preprocess"} : tool'[u] = tool[u] /\ runs'[u] = runs[u]
        /\ tool'["dense"] = tool["dense"] /\ UNCHANGED files
    BY <1>0, <1>4, BaselineMovesAlone, EvaluationMovesAlone, SeedMovesAlone, TheTools
  <2> QED BY <1>0, <2>1, OthersLeaveThem, CacheStays DEF HandsOK
<1>5. CASE UNCHANGED vars
  <2>1. UNCHANGED <<files, tool, runs>>
    BY <1>5 DEF vars
  <2> QED BY <1>0, <2>1, OthersLeaveThem, CacheStays DEF HandsOK
<1> QED BY <1>1, <1>2, <1>3, <1>4, <1>5 DEF Next

-----------------------------------------------------------------------------
(* The invariant, and what follows from it.                                *)

HistoryExists == \E versions : PipeInv(versions)
IInv == HistoryExists /\ HandsOK

LEMMA InitialPipe ==
    ASSUME Init
    PROVE  HistoryExists
<1>1. PICK V : CorpusInv(V)
  BY InitialCorpus DEF Init
<1>2. \A f \in FileNames : ~Readable(f)
  BY DEF Init, CorpusInit, Readable
<1>3. ASSUME NEW t \in Tools PROVE MemoryOK(V, t)
  <2>1. tool[t] = Blank /\ Blank.pc = "idle" /\ Blank.out = <<>>
    BY BlankMemory DEF Init, CorpusInit
  <2> QED BY <2>1, ShortSequences DEF MemoryOK, UsingDocs, UsingVectors
<1>4. DbOK
  <2>1. tool["seed"].pc = "idle"
    BY BlankMemory, TheTools DEF Init, CorpusInit
  <2>2. /\ DOMAIN db = {"documents", "embeddings", "docsRun", "vectorsRun"} /\ db.documents = <<>>
        /\ <<>> \in Seq(Document)
    BY DEF Init
  <2> QED BY <2>1, <2>2 DEF DbOK, SeededInFull, MismatchOnlyAcrossRuns
<1>5. PipeInv(V)
  BY <1>1, <1>2, <1>3, <1>4 DEF PipeInv
<1> QED BY <1>5 DEF HistoryExists

LEMMA StutterStep ==
    ASSUME NEW V, PipeInv(V), UNCHANGED vars
    PROVE  PipeInv(V)'
<1>1. UNCHANGED <<files, tool, runs, db>>
  BY DEF vars
<1>2. Grown(V, V) /\ CorpusInv(V)'
  BY <1>1, NothingHappens DEF PipeInv, corpusVars
<1> QED BY <1>1, <1>2, TheTools, CorpusScriptStep

LEMMA NextStep ==
    ASSUME HistoryExists, [Next]_vars
    PROVE  HistoryExists'
<1>1. PICK V : PipeInv(V)
  BY DEF HistoryExists
<1>2. CASE (collect_all_languages \/ process_all_languages) /\ UNCHANGED db
  BY <1>1, <1>2, CorpusScripts DEF HistoryExists
<1>3. CASE \E t \in Tools : (OpenFile(t) \/ CloseFile(t) \/ Interrupt(t)) /\ UNCHANGED db
  <2>1. PipeInv(V)'
    BY <1>1, <1>3, OpenStep, CloseStep, InterruptedStep
  <2> QED BY <2>1 DEF HistoryExists
<1>4. CASE dense_retrieval \/ baseline \/ evaluation \/ seed
  <2>1. PipeInv(V)'
    BY <1>1, <1>4, DenseStep, BaselineStep, EvaluationStep, SeedStep
  <2> QED BY <2>1 DEF HistoryExists
<1>5. CASE UNCHANGED vars
  <2>1. PipeInv(V)'
    BY <1>1, <1>5, StutterStep
  <2> QED BY <2>1 DEF HistoryExists
<1> QED BY <1>2, <1>3, <1>4, <1>5 DEF Next

\* Every step of every script keeps the files, the memories and the database to what the
\* runs of preprocessing.py have made.
THEOREM PipelineHasHistory == Spec => []IInv
<1>1. Init => IInv
  <2>1. Init => CorpusInit /\ tool["dense"].pc = "idle"
    BY TheTools, BlankMemory DEF Init, CorpusInit
  <2>2. Init => HandsOK
    BY <2>1, InitialFiles DEF HandsOK, CacheInHand
  <2> QED BY <2>2, InitialPipe DEF IInv
<1>2. IInv /\ [Next]_vars => IInv'
  BY NextStep, HandsStep DEF IInv, HistoryExists
<1> QED BY <1>1, <1>2, PTL DEF Spec

LEMMA PipeInvImpliesPositions ==
    ASSUME NEW V, PipeInv(V), HandsOK
    PROVE  PositionsMeanDocuments
<1> DEFINE docs == tool["dense"].docs
<1> SUFFICES ASSUME tool["dense"].pc = "evaluate", Readable(Embeddings),
                    files[Embeddings].rows.docsRun = docs.run
             PROVE  tool["dense"].vectors = [i \in DOMAIN docs.rows |-> docs.rows[i].page]
  BY DEF PositionsMeanDocuments
<1>1. files[Embeddings].rows.vectors = tool["dense"].vectors
  BY DEF HandsOK, CacheInHand
<1>2. VectorsOK(V, Known, files[Embeddings].rows)
  <2>1. Embeddings \in FileNames
    BY DEF FileNames
  <2> QED BY <2>1 DEF PipeInv, ContentOK
<1>3. docs.rows = V[TrainFile(All)][docs.run]
  BY TheTools DEF PipeInv, MemoryOK, UsingDocs, DocsOK
<1>4. tool["dense"].vectors = PagesOf(docs.rows)
  BY <1>1, <1>2, <1>3 DEF VectorsOK
<1> QED BY <1>4 DEF PagesOf

LEMMA PipeInvImpliesType ==
    ASSUME NEW V, PipeInv(V), HandsOK
    PROVE  TypeOK /\ HitsAreAcrossRuns
<1>1. CorpusTypeOK
  BY InvImpliesType DEF PipeInv, HandsOK
<1>2. ASSUME NEW f \in Results PROVE ResultOK(Known, files[f].rows)
  <2>1. f \in ResultFiles /\ f \in FileNames /\ Readable(f)
    BY DEF Results, FileNames
  <2> QED BY <2>1 DEF PipeInv, ContentOK
<1>3. Known[All] \subseteq 1 .. runs["preprocess"]
  BY BoundedScripts DEF Known, PipeInv, CorpusInv, Shape, ScriptOK
<1>4. \A i \in DOMAIN db.documents : db.documents[i] \in Document
  <2>1. db.documents \in Seq(Document)
    BY DEF PipeInv, DbOK
  <2> QED BY <2>1
<1> QED BY <1>1, <1>2, <1>3, <1>4 DEF TypeOK, HitsAreAcrossRuns, ResultOK

\* The type invariant: every result is of documents and queries that some run made.
THEOREM PipelineTypeCorrect == Spec => []TypeOK
<1>1. IInv => TypeOK
  BY PipeInvImpliesType DEF IInv, HistoryExists
<1> QED BY <1>1, PipelineHasHistory, PTL

\* With every method and in every result file: a relevant document is found only where
\* the documents searched and the queries are of different runs of preprocessing.py
\* (load_documents of dense_retrieval.py and baseline.py loads the training documents, the
\* queries are for test documents).
THEOREM HitsAreAlwaysAcrossRuns == Spec => []HitsAreAcrossRuns
<1>1. IInv => HitsAreAcrossRuns
  BY PipeInvImpliesType DEF IInv, HistoryExists
<1> QED BY <1>1, PipelineHasHistory, PTL

\* The position of a vector is that of another document only if dense_retrieval.py took
\* its vectors from a cache that was computed from the documents of another run
\* (encode_documents, search).
THEOREM PositionsAlwaysMeanDocuments == Spec => []PositionsMeanDocuments
<1>1. IInv => PositionsMeanDocuments
  BY PipeInvImpliesPositions DEF IInv, HistoryExists
<1> QED BY <1>1, PipelineHasHistory, PTL

\* A seed that completes leaves every document with its one embedding, whatever runs and
\* interruptions made the files it read (seed_from_existing_data.py).
THEOREM SeedIsAlwaysFull == Spec => []SeededInFull
<1>1. IInv => SeededInFull
  BY DEF IInv, HistoryExists, PipeInv, DbOK
<1> QED BY <1>1, PipelineHasHistory, PTL

\* And a document has the vector of another page only if the cached embeddings are of
\* the documents of another run (encode_documents, seed_from_existing_data.py).
THEOREM SeedMismatchesOnlyAcrossRuns == Spec => []MismatchOnlyAcrossRuns
<1>1. IInv => MismatchOnlyAcrossRuns
  BY DEF IInv, HistoryExists, PipeInv, DbOK
<1> QED BY <1>1, PipelineHasHistory, PTL

\* What Corpus promises of its files holds beside all the scripts that use them
\* (process_all_languages).
THEOREM CorpusStaysClean ==
    Spec => [](CompletedCollectionsAgree /\ CompletedRunsAgree /\ SplitIsClean)
<1>1. IInv => CompletedCollectionsAgree
  BY DEF IInv, HandsOK, CollectionOK, CompletedCollectionsAgree, Fresh
<1>2. IInv => CompletedRunsAgree /\ SplitIsClean
  BY InvImpliesAgreement, InvImpliesSplit DEF IInv, HistoryExists, PipeInv
<1> QED BY <1>1, <1>2, PipelineHasHistory, PTL
=============================================================================
