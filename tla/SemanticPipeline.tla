--------------------------- MODULE SemanticPipeline ---------------------------
(* cli.py's semantic-pipeline over one paper directory: the PDF's structure    *)
(* from Docling, from a model or from rules a model reviews, the semantic      *)
(* document and the translations it takes over, a pool that translates chunks, *)
(* the files of html/, the bundle and the job manifest, across kills, reruns   *)
(* and a PDF translation that records itself in the same manifest.             *)
EXTENDS DoclingWorker, FiniteSets, Sequences
CONSTANTS
  Units,      \* the ids of translatable units
  Texts,      \* what a unit's original text may be
  Sources,    \* the PDFs that are given under this slug
  Readings,   \* the originals by unit id that a PDF may be read as
  Retries,    \* of one chunk
  PoolSize,
  Pictures,   \* the names that pictures of a paper are drawn under
  Runs        \* bound: the arguments each run in turn may be given
ASSUME ReadingsAreDocuments == Readings \in [Sources -> SUBSET [Units -> Texts]]
ASSUME BoundsAreNumbers == Retries \in Nat /\ PoolSize \in Nat \ {0}

Parsers == {"docling", "llm", "hybrid"}
Modes == {"translate", "skip", "mcp"}
Arguments == [parser : Parsers, mode : Modes]
ASSUME RunsAreArguments == Runs \in Seq(SUBSET Arguments)
MaxRuns == Len(Runs)

VARIABLES
  pc, run, source, settings,   \* the pipeline process: its step, number, PDF and arguments
  todo,       \* the page batches still to analyze
  made,       \* the PDFs the analyzed structure was made from
  batches,    \* structure-batches/: what each cache file holds
  doc,        \* the document in memory, as a set of at most one
  disk,       \* semantic-document.json: nothing, a document or {Torn}
  chunks, tasks, cache,   \* the chunks, what the pool has done of each, semantic-translations/
  assets,     \* work/assets: the run that drew each picture, or 0
  shown,      \* the pictures of the structure that were not blank
  html,       \* the run that wrote each file of html/, and its verdict
  bundle,     \* what of html/ the bundle holds
  manifest    \* papertrans-job.json
pipelineVars == <<pc, run, source, settings, todo, made, batches, doc, disk, chunks, tasks, cache,
                  assets, shown, html, bundle, manifest>>
vars == <<pipelineVars, doclingVars>>

Both == {1, 2}                            \* a batch of two pages and its single pages
Batches == {Both, {1}, {2}}
Torn == [torn |-> TRUE]
Document == [text : [Units -> Texts], ja : [Units -> SUBSET Texts], doubtful : BOOLEAN,
             status : {"structured", "translating", "translated", "needs_review"}, of : Sources, structureOf : SUBSET Sources]
Working == {"extract", "analyze", "review", "crops", "build", "announce", "begin", "progress", "pool", "drain",
            "html", "index", "check", "bundle", "finish"}
Statuses == {"preparing", "translating", "failed", "prepared", "needs_review", "completed"}
Published == {"prepared", "needs_review", "completed"}
TaskStates == [state : {"queued", "running", "ready", "failed", "applied"}, tries : 0 .. Retries + 1]
Page(n, verdict) == [run |-> n, qa |-> verdict]
Index(n, pictures) == [run |-> n, shows |-> pictures]
Html == [assets : [Pictures -> 0 .. MaxRuns], index : [run : 0 .. MaxRuns, shows : SUBSET Pictures],
         qa : [run : 0 .. MaxRuns, qa : {"none", "passed", "failed"}]]

TypeOK ==
  /\ DoclingTypeOK /\ pc \in Working \cup {"idle", "ended"} /\ run \in 0 .. MaxRuns /\ source \in Sources
  /\ settings \in Arguments /\ todo \in Seq(Batches) /\ made \subseteq Sources
  /\ batches \in [Batches -> (SUBSET Sources) \cup {{"torn"}}] /\ doc \subseteq Document /\ Cardinality(doc) <= 1
  /\ Cardinality(disk) <= 1 /\ disk \subseteq Document \cup {Torn}
  /\ chunks \in Seq(SUBSET Units) /\ tasks \in [1 .. Len(chunks) -> TaskStates]
  /\ assets \in [Pictures -> 0 .. MaxRuns] /\ shown \subseteq Pictures /\ html \in Html /\ bundle \in Html
  /\ manifest \in [status : Statuses \cup {"none"}, of : SUBSET Sources, pdf : BOOLEAN, done : SUBSET Units]

Init ==
  /\ DoclingInit /\ pc = "idle" /\ run = 0 /\ source \in Sources /\ settings = [parser |-> "docling", mode |-> "skip"]
  /\ todo = <<>> /\ made = {} /\ batches = [b \in Batches |-> {}] /\ doc = {} /\ disk = {}
  /\ chunks = <<>> /\ tasks = <<>> /\ cache = {}
  /\ assets = [p \in Pictures |-> 0] /\ shown = {}
  /\ html = [assets |-> assets, index |-> Index(0, {}), qa |-> Page(0, "none")] /\ bundle = html
  /\ manifest = [status |-> "none", of |-> {}, pdf |-> FALSE, done |-> {}]

--------------------------------------------------------------------------------
(* Helpers.                                                                    *)
TheDoc == CHOOSE d \in doc : TRUE
Translated(d) == {u \in Units : d.ja[u] # {}}
TranslatedOf(ds) == UNION {Translated(d) : d \in ds}

processVars == <<run, source, settings>>
structureVars == <<todo, made, batches>>
pictureVars == <<assets, shown>>
textVars == <<doc, disk>>
poolVars == <<chunks, tasks, cache>>
publicVars == <<html, bundle>>

\* write_pdf_job_manifest, under the manifest's lock: what a PDF translation of the same PDF
\* recorded stays.
WriteManifest(status, pdf, ds) ==
  manifest' = [status |-> status, of |-> {pdf}, pdf |-> manifest.pdf /\ manifest.of = {pdf}, done |-> TranslatedOf(ds)]
InProgress == IF settings.mode = "mcp" THEN "preparing" ELSE "translating"

\* merge_semantic_translations: by id and equal original, else by the only equal original.
Old(previous, d, u) ==
  LET same == {v \in Units : previous.text[v] = d.text[u]}
  IN IF previous.text[u] = d.text[u] THEN {u} ELSE IF Cardinality(same) = 1 THEN same ELSE {}
MergedJa(previous, d, u) == UNION {previous.ja[v] : v \in Old(previous, d, u)}
StartOver(previous, d) == d
Merge(previous, d) ==
  LET ja == [u \in Units |-> MergedJa(previous, d, u)]
  IN [d EXCEPT !.ja = ja,
               !.status = IF \A u \in Units : ja[u] # {} THEN previous.status ELSE "structured"]

\* The chunks any max_characters could make of the units without Japanese.
Packings(pending) ==
  {s \in UNION {[1 .. n -> (SUBSET pending) \ {{}}] : n \in 0 .. Cardinality(pending)} :
     UNION {s[i] : i \in DOMAIN s} = pending /\ \A i, j \in DOMAIN s : i # j => s[i] \cap s[j] = {}}
\* A cache file's name: the chunk's index and a digest of its ids and originals.
CacheKey(i) == <<i, {<<u, TheDoc.text[u]>> : u \in chunks[i]}>>

--------------------------------------------------------------------------------
(* From the PDF to the semantic document.                                      *)
Step(from, to) == pc = from /\ pc' = to

\* What a process that has ended no longer holds.
ForgetRun == doc' = {} /\ made' = {} /\ shown' = {} /\ todo' = <<>> /\ chunks' = <<>> /\ tasks' = <<>>
\* The locals of a conversion that has returned or not begun.
ForgetLocals ==
  /\ call' = "idle" /\ attempt' = 0 /\ monitor' = "off" /\ seen' = FALSE /\ memory' = FALSE /\ expired' = FALSE
  /\ failure' = "none" /\ limits' = FALSE /\ answer' = "none"
ForgetCall ==
  /\ ForgetLocals
  /\ worker' = (IF worker = "running" THEN worker ELSE "none") /\ helper' = (IF helper = "alive" THEN helper ELSE "none")

Begin(s, arguments) ==
  /\ pc \in {"idle", "ended"} /\ run < MaxRuns /\ run' = run + 1 /\ pc' = "extract"
  /\ arguments \in Runs[run'] /\ source' = s /\ settings' = arguments
  /\ WriteManifest(IF arguments.mode = "mcp" THEN "preparing" ELSE "translating", s, {})
  /\ ForgetCall /\ output' = "none"   \* a new name: what a killed run left stays
  /\ UNCHANGED <<structureVars, textVars, poolVars, pictureVars, publicVars>>

Converting == pc = "extract" /\ settings.parser = "docling"
Convert(step) == Converting /\ call # "over" /\ step /\ UNCHANGED pipelineVars

DrawMissing(drawn, blank) ==     \* mutant: a picture that is there is not drawn again
  assets' = [p \in Pictures |-> IF p \in drawn /\ assets[p] = 0 THEN run ELSE IF p \in blank THEN 0 ELSE assets[p]]
\* render_visual_objects: a picture of the structure is drawn, or is blank and removed; what an
\* earlier run drew under another name stays.
Draw(drawn, blank) ==
  assets' = [p \in Pictures |-> IF p \in drawn THEN run ELSE IF p \in blank THEN 0 ELSE assets[p]]
DrawPictures ==
  \E drawn \in SUBSET Pictures : \E blank \in SUBSET (Pictures \ drawn) : Draw(drawn, blank) /\ shown' = drawn
\* docling_document_to_ir, the passes over it, validation, the crops and the three files.
Structured ==
  /\ Converting /\ answer = "document" /\ pc' = "build" /\ made' = {source} /\ DrawPictures /\ ForgetCall
  /\ UNCHANGED <<processVars, todo, batches, textVars, poolVars, publicVars, manifest, output>>
LayoutEvidence ==
  /\ settings.parser # "docling" /\ Step("extract", IF settings.parser = "llm" THEN "analyze" ELSE "review")
  /\ todo' = IF settings.parser = "llm" THEN <<Both>> ELSE <<>>
  /\ UNCHANGED <<processVars, made, batches, textVars, poolVars, pictureVars, publicVars, manifest, doclingVars>>
\* analyze_layout_deterministic, and a model's review of its doubtful pages, cached by content.
Review ==
  /\ Step("review", "crops") /\ made' = {source}
  /\ UNCHANGED <<processVars, todo, batches, textVars, poolVars, pictureVars, publicVars, manifest, doclingVars>>

Analyze(rest) ==
  /\ pc = "analyze" /\ todo # <<>> /\ todo' = rest
  /\ UNCHANGED <<pc, processVars, textVars, poolVars, pictureVars, publicVars, manifest, doclingVars>>
\* A cached batch is taken when its block ids are those of these pages.
ReuseBatch ==
  /\ Analyze(Tail(todo)) /\ batches[Head(todo)] \notin {{}, {"torn"}}
  /\ made' = made \cup batches[Head(todo)] /\ UNCHANGED batches
AskForStructure ==
  /\ Analyze(Tail(todo)) /\ batches[Head(todo)] = {}
  /\ made' = made \cup {source} /\ batches' = [batches EXCEPT ![Head(todo)] = {source}]
\* Two pages the model does not answer for are asked for one by one.
SplitBatch ==
  /\ Analyze(<<{1}, {2}>>) /\ Head(todo) = Both /\ batches[Both] = {} /\ UNCHANGED <<made, batches>>
AnalyzedAll ==
  /\ todo = <<>> /\ Step("analyze", "crops")
  /\ batches' = IF batches[Both] = {} THEN [batches EXCEPT ![Both] = made] ELSE batches
  /\ UNCHANGED <<processVars, todo, made, textVars, poolVars, pictureVars, publicVars, manifest, doclingVars>>
Crops ==
  /\ Step("crops", "build") /\ DrawPictures
  /\ UNCHANGED <<processVars, structureVars, textVars, poolVars, publicVars, manifest, doclingVars>>

\* build_semantic_document, with the translations of the document a run before left, and saved.
\* It is doubtful by warnings of its own and by those of the units it takes over.
Build ==
  /\ disk # {Torn} /\ Step("build", "announce")
  /\ \E text \in Readings[source], doubt \in BOOLEAN :
       LET built == [text |-> text, ja |-> [u \in Units |-> {}], doubtful |-> doubt, status |-> "structured",
                     of |-> source, structureOf |-> made]
       IN doc' = IF disk = {} THEN {built} ELSE {Merge(d, built) : d \in disk}
  /\ disk' = doc'
  /\ UNCHANGED <<processVars, structureVars, poolVars, pictureVars, publicVars, manifest, doclingVars>>
Announce ==
  /\ Step("announce", IF settings.mode = "translate" THEN "begin" ELSE "html") /\ WriteManifest(InProgress, source, doc)
  /\ UNCHANGED <<processVars, structureVars, textVars, poolVars, pictureVars, publicVars, doclingVars>>

--------------------------------------------------------------------------------
(* translate_semantic_document.                                                *)
SaveDoc(d) == doc' = {d} /\ disk' = {d}
BeginTranslation ==
  /\ Step("begin", "progress") /\ SaveDoc([TheDoc EXCEPT !.status = "translating"])
  /\ chunks' \in Packings(Units \ Translated(TheDoc))
  /\ tasks' = [i \in 1 .. Len(chunks') |-> [state |-> "queued", tries |-> 0]]
  /\ UNCHANGED <<processVars, structureVars, cache, pictureVars, publicVars, manifest, doclingVars>>
\* progress_callback.
Progress ==
  /\ Step("progress", IF TheDoc.status = "translating" THEN "pool" ELSE "html")
  /\ WriteManifest("translating", source, doc)
  /\ UNCHANGED <<processVars, structureVars, textVars, poolVars, pictureVars, publicVars, doclingVars>>

Pool == {"pool", "progress", "drain"}
Task(i, from, to) ==
  /\ pc \in Pool /\ i \in DOMAIN tasks /\ tasks[i].state = from /\ tasks' = [tasks EXCEPT ![i] = to]
  /\ UNCHANGED <<pc, processVars, structureVars, textVars, chunks, pictureVars, publicVars, manifest, doclingVars>>
FetchUnlessFailed(i) ==
  /\ \A j \in DOMAIN tasks : tasks[j].state # "failed"
  /\ Cardinality({j \in DOMAIN tasks : tasks[j].state = "running"}) < PoolSize /\ UNCHANGED cache
  /\ Task(i, "queued", [state |-> IF CacheKey(i) \in cache THEN "ready" ELSE "running", tries |-> 0])
\* _translate_chunk: a result kept for the same ids and originals, or a model's.
Fetch(i) ==
  /\ Cardinality({j \in DOMAIN tasks : tasks[j].state = "running"}) < PoolSize /\ UNCHANGED cache
  /\ Task(i, "queued", [state |-> IF CacheKey(i) \in cache THEN "ready" ELSE "running", tries |-> 0])
AcceptAnswer(i) ==
  /\ Task(i, "running", [state |-> "ready", tries |-> tasks[i].tries]) /\ cache' = cache \cup {CacheKey(i)}
\* An error, a timeout or an answer for other ids: once more, or the chunk has failed.
RejectAnswer(i) ==
  /\ LET tries == tasks[i].tries + 1
     IN Task(i, "running", [state |-> IF tries > Retries THEN "failed" ELSE "running", tries |-> tries])
  /\ UNCHANGED cache

\* The main thread takes results as they complete.
Apply(i, doubt) ==
  /\ Step("pool", "progress") /\ i \in DOMAIN tasks /\ tasks[i].state = "ready"
  /\ tasks' = [tasks EXCEPT ![i].state = "applied"]
  /\ SaveDoc([TheDoc EXCEPT !.ja = [u \in Units |-> IF u \in chunks[i] THEN {TheDoc.text[u]} ELSE @[u]],
                            !.doubtful = @ \/ doubt])
  /\ UNCHANGED <<processVars, structureVars, chunks, cache, pictureVars, publicVars, manifest, doclingVars>>
\* A failed future raises; leaving the pool's block waits for every other chunk.
Abandon ==
  /\ \E i \in DOMAIN tasks : tasks[i].state = "failed"
  /\ Step("pool", "drain") /\ UNCHANGED <<processVars, structureVars, textVars, poolVars, pictureVars, publicVars, manifest, doclingVars>>
Conclude ==
  /\ \A i \in DOMAIN tasks : tasks[i].state = "applied"
  /\ Step("pool", "progress") /\ SaveDoc([TheDoc EXCEPT !.status = IF TheDoc.doubtful THEN "needs_review" ELSE "translated"])
  /\ UNCHANGED <<processVars, structureVars, poolVars, pictureVars, publicVars, manifest, doclingVars>>

--------------------------------------------------------------------------------
(* html/, its checks, the bundle and the verdict.                              *)
\* The copy of work/assets, all of it, in place of the copy before.
RenderAssets ==
  /\ Step("html", "index") /\ html' = [html EXCEPT !.assets = assets]
  /\ UNCHANGED <<processVars, structureVars, textVars, poolVars, pictureVars, bundle, manifest, doclingVars>>
RenderIndex ==
  /\ Step("index", "check") /\ html' = [html EXCEPT !.index = Index(run, shown)]
  /\ UNCHANGED <<processVars, structureVars, textVars, poolVars, pictureVars, bundle, manifest, doclingVars>>
WriteQa(verdict) ==
  /\ Step("check", "bundle") /\ html' = [html EXCEPT !.qa = Page(run, verdict)]
  /\ UNCHANGED <<processVars, structureVars, textVars, poolVars, pictureVars, bundle, manifest, doclingVars>>
CreateBundle ==
  /\ Step("bundle", "finish") /\ bundle' = html
  /\ UNCHANGED <<processVars, structureVars, textVars, poolVars, pictureVars, html, manifest, doclingVars>>
\* _semantic_pipeline_status.
FinalStatus(emptyPages) ==
  IF html.qa.qa # "passed" THEN "failed"
  ELSE IF settings.mode = "mcp" THEN "prepared"
  ELSE IF settings.mode = "skip" \/ TheDoc.status = "needs_review" \/ emptyPages THEN "needs_review"
  ELSE "completed"
Finish ==
  /\ Step("finish", "ended") /\ \E emptyPages \in BOOLEAN : WriteManifest(FinalStatus(emptyPages), source, doc)
  /\ ForgetRun /\ UNCHANGED <<processVars, batches, disk, cache, assets, publicVars, doclingVars>>

--------------------------------------------------------------------------------
(* Failures and the surroundings.                                              *)

\* An end in the middle of a step: a file that is written in place is torn, some pictures are
\* drawn, the copy of the assets is partly removed or partly made.
CutShort ==
  \/ UNCHANGED <<disk, batches, assets, html>>
  \/ pc \in {"build", "begin", "pool"} /\ disk' = {Torn} /\ UNCHANGED <<batches, assets, html>>
  \/ /\ pc = "analyze" /\ UNCHANGED <<disk, assets, html>>
     /\ LET writing == IF todo = <<>> THEN Both ELSE Head(todo)
        IN batches[writing] = {} /\ batches' = [batches EXCEPT ![writing] = {"torn"}]
  \/ /\ \/ pc = "crops"
        \/ Converting /\ answer = "document"
     /\ \E drawn \in SUBSET Pictures : \E blank \in SUBSET (Pictures \ drawn) : Draw(drawn, blank)
     /\ UNCHANGED <<disk, batches, html>>
  \/ /\ pc = "html" /\ UNCHANGED <<disk, batches, assets>>
     /\ \E left \in SUBSET Pictures, copy \in {html.assets, assets} :
          html' = [html EXCEPT !.assets = [p \in Pictures |-> IF p \in left THEN copy[p] ELSE 0]]
  \/ pc = "index" /\ html' = [html EXCEPT !.index = Index(0, {})] /\ UNCHANGED <<disk, batches, assets>>

\* Any exception: the manifest says so, with the document as far as it got.  Leaving the pool's
\* block waits for every chunk; the first progress_callback runs before they are submitted.
Raise ==
  /\ \/ pc \in Working \ ({"extract"} \cup Pool)
     \/ pc = "extract" /\ (settings.parser # "docling" \/ call = "over")
     \/ pc \in Pool /\ \A i \in DOMAIN tasks : tasks[i].state \notin {"queued", "running"}
     \/ pc = "progress" /\ \A i \in DOMAIN tasks : tasks[i].state = "queued"
  /\ pc' = "ended" /\ WriteManifest("failed", source, doc) /\ CutShort /\ ForgetCall
  /\ ForgetRun /\ UNCHANGED <<processVars, cache, bundle, output>>

\* The Web supervisor kills the process group: the pipeline, its Docling child and all it
\* started.
Kill ==
  /\ pc \in Working /\ pc' = "ended" /\ CutShort
  /\ ForgetLocals /\ worker' = "none" /\ helper' = "none"
  /\ ForgetRun /\ UNCHANGED <<processVars, cache, bundle, manifest, output>>

\* A PDF translation of this paper is promoted into the manifest, under its lock.
RecordPdf ==
  /\ manifest.status # "none" /\ ~manifest.pdf /\ manifest' = [manifest EXCEPT !.pdf = TRUE]
  /\ UNCHANGED <<pc, processVars, structureVars, textVars, poolVars, pictureVars, publicVars, doclingVars>>

Main ==
  \/ Convert(DoclingCall) \/ Structured \/ LayoutEvidence \/ Review
  \/ ReuseBatch \/ AskForStructure \/ SplitBatch \/ AnalyzedAll \/ Crops \/ Build \/ Announce
  \/ BeginTranslation \/ Progress \/ (\E i \in DOMAIN tasks, doubt \in BOOLEAN : Apply(i, doubt)) \/ Abandon \/ Conclude
  \/ RenderAssets \/ RenderIndex \/ (\E verdict \in {"passed", "failed"} : WriteQa(verdict)) \/ CreateBundle \/ Finish
  \/ Raise
Thread(i) == Fetch(i) \/ AcceptAnswer(i) \/ RejectAnswer(i)
Next ==
  \/ \E s \in Sources, arguments \in Arguments : Begin(s, arguments)
  \/ Main \/ Convert(DoclingSurroundings) \/ (\E i \in DOMAIN tasks : Thread(i)) \/ Kill \/ RecordPdf
\* The main thread and the threads of the pool go on, the clock does, and a monitor's round ends.
Fairness ==
  /\ WF_vars(Main) /\ \A i \in 1 .. Cardinality(Units) : WF_vars(Thread(i))
  /\ WF_vars(Convert(Expire)) /\ WF_vars(Convert(MonitorEnds))
Spec == Init /\ [][Next]_vars /\ Fairness

--------------------------------------------------------------------------------
\* A manifest that presents a paper does so for one run's page: the verdict is on that page and
\* passed, each picture it shows is as that run drew it, whatever earlier runs left under the
\* same names, the bundle holds just what html/ does, and a completed paper is translated
\* throughout.
PublishedStatusIsEarned ==
  manifest.status \in Published =>
    /\ html.qa = Page(html.index.run, "passed") /\ bundle = html
    /\ \A p \in html.index.shows : html.assets[p] = html.index.run
    /\ manifest.status = "completed" => manifest.done = Units
\* Whatever runs, chunks, caches and re-read documents a translation has passed through, it
\* stands under the original it was made for.
TranslationsMatch == \A d \in disk \ {Torn} : \A u \in Units : d.ja[u] \subseteq {d.text[u]}
\* No run takes a translation out of the document on disk while the unit keeps its original,
\* or its original is still found exactly once.
TranslationsKept ==
  [][\A old \in disk \ {Torn}, new \in disk' \ {Torn} : \A u, v \in Units :
       /\ old.ja[u] # {} /\ old.text[u] = new.text[v]
       /\ u = v \/ \A w \in Units : (old.text[w] = old.text[u] => w = u) /\ (new.text[w] = new.text[v] => w = v)
       => new.ja[v] = old.ja[u]]_vars
\* A rewrite of the manifest by the pipeline never loses the PDF translation of this same PDF.
PdfTranslationKept == [][manifest.pdf /\ manifest'.of = manifest.of => manifest'.pdf]_vars
\* The processes of a conversion, and the limits put on the calling process for it, end with it.
ConversionReleased == NothingOutlivesTheCall /\ (pc # "extract" => ~limits /\ worker # "running")
\* A pipeline ends, with a result or a failure, as long as what Docling starts lets go of its
\* stderr; a model, a chunk or a conversion that never answers is waited for only so long.
PipelineEnds == []<>(helper # "alive") => (pc \in Working ~> pc = "ended")
\* "Cache immutable downloads, normalized structure, figures, and translation chunks by
\* content hash and source version": a document's structure was made from its own PDF.
StructureIsOfSource == \A d \in disk \ {Torn} : d.structureOf \subseteq {d.of}
================================================================================
