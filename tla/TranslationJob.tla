---------------------------- MODULE TranslationJob ----------------------------
(* One MCP translation job of src/papertrans/chatgpt_worker.py.  The job is a   *)
(* set of files that describe each other: the document with its translations,   *)
(* one result file per chunk, the manifest mcp-job.json, the pages and their    *)
(* ZIP, and for a PDF papertrans-job.json, the manifest the Web reads first.    *)
(* Calls are serialised by a flock on the job.  The JSON files and the ZIP are  *)
(* replaced atomically, the pages are rewritten in place, file after file; a    *)
(* call may end between any two writes or within one of a page, because its     *)
(* process is killed or because a write or a verification raises.  Promotion of *)
(* a translated PDF updates papertrans-job.json from outside the job's lock.    *)
EXTENDS Naturals, FiniteSets

CONSTANTS
  Clients,    \* callers of save_translation_chunk and finalize_translation_html
  Promoters,  \* callers of promote_candidate_pdf
  Chunks,     \* the chunks of the job
  Texts,      \* the translations a client may give a chunk
  Flagged,    \* those that come with a warning
  Broken,     \* those whose pages fail the renderer's or the artifact QA
  Kind,       \* "html" for an arXiv job, "pdf" for a prepared PDF
  EmptyPages, \* what QA may say: TRUE when the PDF has pages without text
  Overwrites, \* TRUE: clients may set overwrite
  Aborts,     \* TRUE: calls may end between two writes
  Releases,   \* what the version of a manifest may be to a release installed later
  NoText, NoOne

ASSUME KindAssumption == Kind \in {"html", "pdf"}
ASSUME FlagAssumption == {Overwrites, Aborts} \cup EmptyPages \subseteq BOOLEAN
ASSUME ReleaseAssumption == Releases \subseteq {"unsafe", "older", "current"}
ASSUME TextAssumption == NoText \notin Texts /\ Flagged \subseteq Texts
ASSUME ActorAssumption == NoOne \notin Clients \cup Promoters /\ Clients \cap Promoters = {}

VARIABLES
  document,  \* html-document.json or semantic-document.json
  results,   \* chatgpt-translations/<chunk>.json
  manifest,  \* mcp-job.json
  paper,     \* papertrans-job.json
  html,      \* html/: what index.html shows, whether every other file in it is
             \* whole and of the same rendering, and whether qa.json says passed
  bundle,    \* the same of the ZIP
  lock,      \* holder of the job's flock
  paperLock, \* holder of the flock of papertrans-job.json
  pc,        \* where each caller is
  call,      \* the arguments of each call
  loaded     \* what the call has read

files == <<document, results, manifest, paper, html, bundle>>
vars == <<files, lock, paperLock, pc, call, loaded>>

Actors == Clients \cup Promoters

NoBlock == [text |-> NoText, warned |-> FALSE]
Block == [text : Texts \cup {NoText}, warned : BOOLEAN]
Showing == [Chunks -> Texts \cup {NoText}]

Final == IF Kind = "pdf" THEN {"completed", "needs_review"} ELSE {"completed"}
Statuses == {"absent", "prepared", "translating", "ready_to_finalize", "completed", "needs_review"}
Versions == {"none", "unsafe", "older", "current"}

Translated(doc) == {c \in Chunks : doc[c].text # NoText}
TextOf(doc) == [c \in Chunks |-> doc[c].text]

\* The manifest a call works on.  The first call on a prepared PDF derives it
\* from papertrans-job.json and the document.
LoadedManifest ==
  IF manifest.status = "absent"
  THEN [status |-> "prepared", completed |-> Translated(document), version |-> "none"]
  ELSE manifest

\* _refresh_status: the document decides which chunks are completed.
Refreshed(m, doc) ==
  [m EXCEPT !.completed = Translated(doc),
            !.status = IF Translated(doc) = Chunks THEN "ready_to_finalize"
                       ELSE IF Translated(doc) = {} THEN "prepared" ELSE "translating"]

\* A block after a save.  A PDF block keeps the warnings it had.
SavedBlock(old, t) ==
  [text |-> t, warned |-> t \in Flagged \/ (Kind = "pdf" /\ old.warned)]

\* _artifacts_current: nothing here deletes the files a manifest names.
ArtifactsCurrent == manifest.status \in Final /\ manifest.version = "current"

\* Any chunk without a text in the document, whatever the manifest says of it.
Pending == Chunks \ Translated(document)

NoManifest == [status |-> "absent", completed |-> {}, version |-> "none"]
NoPaper == [status |-> "absent", provider |-> "none", completed |-> {}, promoted |-> FALSE]
NoCall == [op |-> "none", chunk |-> NoOne, text |-> NoText, overwrite |-> FALSE]
NoLoad == [manifest |-> NoManifest, paper |-> NoPaper, replay |-> FALSE, again |-> FALSE,
           document |-> [c \in Chunks |-> NoBlock]]

Goto(p, label) == pc' = [pc EXCEPT ![p] = label]

-------------------------------------------------------------------------------
\* A job as prepare or the import pipeline leaves it.  The preview of a prepared
\* PDF has pages already; an old pipeline left it for review without a provider.
PreparedPaper ==
  {[status |-> "prepared", provider |-> "mcp", completed |-> {}, promoted |-> FALSE],
   [status |-> "needs_review", provider |-> "none", completed |-> {}, promoted |-> FALSE]}

Init ==
  /\ document = [c \in Chunks |-> NoBlock]
  /\ results = document
  /\ manifest = IF Kind = "pdf" THEN NoManifest ELSE [NoManifest EXCEPT !.status = "prepared"]
  /\ paper \in IF Kind = "pdf" THEN PreparedPaper ELSE {NoPaper}
  /\ html = [of |-> TextOf(document), whole |-> Kind = "pdf", passed |-> Kind = "pdf"]
  /\ bundle = [of |-> TextOf(document), whole |-> Kind = "pdf"]
  /\ lock = NoOne /\ paperLock = NoOne
  /\ pc = [p \in Actors |-> "idle"]
  /\ call = [p \in Actors |-> NoCall]
  /\ loaded = [p \in Actors |-> NoLoad]

\* Mutant: the call does not wait for the flock.
EnterUnlocked(p, args, doc, replay) ==
  /\ pc[p] = "idle"
  /\ lock' = p
  /\ call' = [call EXCEPT ![p] = args]
  /\ loaded' = [loaded EXCEPT ![p] = [NoLoad EXCEPT !.manifest = LoadedManifest,
                                                    !.document = doc, !.replay = replay]]
  /\ UNCHANGED <<files, paperLock>>

\* Every call takes the flock and then reads the manifest and the document,
\* which only its holder replaces.
Enter(p, args, doc, replay) ==
  /\ pc[p] = "idle"
  /\ lock = NoOne
  /\ lock' = p
  /\ call' = [call EXCEPT ![p] = args]
  /\ loaded' = [loaded EXCEPT ![p] = [NoLoad EXCEPT !.manifest = LoadedManifest,
                                                    !.document = doc, !.replay = replay]]
  /\ UNCHANGED <<files, paperLock>>

Saving(c, t, over) == [op |-> "save", chunk |-> c, text |-> t, overwrite |-> over]

\* The chunk has no text yet, or a different one and the client asks to replace it.
BeginSave(p, c, t, over) ==
  LET new == SavedBlock(document[c], t) IN
  /\ over => Overwrites
  /\ new # document[c]
  /\ document[c].text = NoText \/ over
  /\ Enter(p, Saving(c, t, over), [document EXCEPT ![c] = new], FALSE)
  /\ Goto(p, "document")

\* The same save again: the document stays, the other files are written anew.
BeginReplay(p, c, t, over) ==
  /\ over => Overwrites
  /\ SavedBlock(document[c], t) = document[c]
  /\ Enter(p, Saving(c, t, over), document, TRUE)
  /\ Goto(p, "result")

RefuseSave(p, c, t) ==
  /\ document[c].text # NoText
  /\ SavedBlock(document[c], t) # document[c]
  /\ Enter(p, Saving(c, t, FALSE), document, FALSE)
  /\ Goto(p, "refused")

WriteDocument(p) ==
  /\ pc[p] = "document"
  /\ document' = loaded[p].document
  /\ Goto(p, "result")
  /\ UNCHANGED <<results, manifest, paper, html, bundle, lock, paperLock, call, loaded>>

WriteResult(p) ==
  /\ pc[p] = "result"
  /\ results' = [results EXCEPT ![call[p].chunk] = loaded[p].document[call[p].chunk]]
  /\ Goto(p, "manifest")
  /\ UNCHANGED <<document, manifest, paper, html, bundle, lock, paperLock, call, loaded>>

\* The status is computed again on a replay too, only updatedAt is not touched.
WriteManifest(p) ==
  LET m == Refreshed(loaded[p].manifest, loaded[p].document) IN
  /\ pc[p] = "manifest"
  /\ manifest' = m
  /\ loaded' = [loaded EXCEPT ![p].manifest = m]
  /\ Goto(p, IF Kind = "pdf" THEN "sync" ELSE "saved")
  /\ UNCHANGED <<document, results, paper, html, bundle, lock, paperLock, call>>

\* Mutant: papertrans-job.json is read before its flock is taken.
ReadPaperUnlocked(p) ==
  /\ pc[p] = "sync"
  /\ loaded' = [loaded EXCEPT ![p].paper = paper]
  /\ Goto(p, "syncing")
  /\ UNCHANGED <<files, lock, paperLock, call>>

\* write_pdf_job_manifest: what a promotion added is read and kept under the
\* flock of papertrans-job.json.
ReadPaper(p) ==
  /\ pc[p] = "sync"
  /\ paperLock = NoOne
  /\ paperLock' = p
  /\ loaded' = [loaded EXCEPT ![p].paper = paper]
  /\ Goto(p, "syncing")
  /\ UNCHANGED <<files, lock, call>>

WritePaper(p) ==
  /\ pc[p] = "syncing"
  /\ paper' = [status |-> loaded[p].manifest.status, provider |-> "mcp",
               completed |-> Translated(loaded[p].document),
               promoted |-> loaded[p].paper.promoted]
  /\ paperLock' = NoOne
  /\ Goto(p, IF call[p].op = "save" THEN "saved" ELSE "finalized")
  /\ UNCHANGED <<document, results, manifest, html, bundle, lock, call, loaded>>

-------------------------------------------------------------------------------
Finalizing == [NoCall EXCEPT !.op = "finalize"]

\* Artifacts the manifest calls current are not rendered again.
BeginFinalizeCurrent(p) ==
  /\ ArtifactsCurrent
  /\ Enter(p, Finalizing, document, FALSE)
  /\ Goto(p, IF Kind = "pdf" THEN "sync" ELSE "finalized")

\* Mutant: the chunks that remain are those of the manifest as it was read.
BeginFinalizeUnrefreshed(p) ==
  /\ ~ArtifactsCurrent
  /\ Enter(p, Finalizing, document, FALSE)
  /\ Goto(p, IF manifest.completed = Chunks THEN "status" ELSE "refused")

BeginFinalize(p) ==
  /\ ~ArtifactsCurrent
  /\ Enter(p, Finalizing, document, FALSE)
  /\ Goto(p, IF Pending = {} THEN "status" ELSE "refused")

\* Mutant: the manifest names the new renderer before the pages are its.
WriteStatusEarly(p) ==
  /\ pc[p] = "status"
  /\ document' = loaded[p].document
  /\ manifest' = [manifest EXCEPT !.version = "current"]
  /\ Goto(p, IF Kind = "html" /\ loaded[p].again THEN "bundle" ELSE "assets")
  /\ UNCHANGED <<results, paper, html, bundle, lock, paperLock, call, loaded>>

\* The document with its new status; it is written again before the second
\* rendering of a PDF with empty pages, and after the rendering of an HTML job.
WriteStatus(p) ==
  /\ pc[p] = "status"
  /\ document' = loaded[p].document
  /\ Goto(p, IF Kind = "html" /\ loaded[p].again THEN "bundle" ELSE "assets")
  /\ UNCHANGED <<results, manifest, paper, html, bundle, lock, paperLock, call, loaded>>

\* The pages are rewritten in place.  From the removal of assets/ to the end of
\* the last file they are not whole: something is missing, cut short, or of an
\* earlier rendering.
RemoveAssets(p) ==
  /\ pc[p] = "assets"
  /\ html' = [html EXCEPT !.whole = FALSE]
  /\ Goto(p, "index")
  /\ UNCHANGED <<document, results, manifest, paper, bundle, lock, paperLock, call, loaded>>

WriteIndex(p) ==
  /\ pc[p] = "index"
  /\ html' = [html EXCEPT !.of = TextOf(loaded[p].document)]
  /\ Goto(p, IF Kind = "html" THEN "qa" ELSE "pages")
  /\ UNCHANGED <<document, results, manifest, paper, bundle, lock, paperLock, call, loaded>>

\* index.md and the other files.
WritePages(p) ==
  /\ pc[p] = "pages"
  /\ html' = [html EXCEPT !.whole = TRUE]
  /\ loaded' = [loaded EXCEPT ![p].again = @ \/ Kind = "html"]
  /\ Goto(p, IF Kind = "html" THEN "status" ELSE IF loaded[p].again THEN "bundle" ELSE "qa")
  /\ UNCHANGED <<document, results, manifest, paper, bundle, lock, paperLock, call>>

\* qa.json; when it says failed the call raises and leaves it behind.  A PDF with
\* empty pages is rendered a second time, and qa.json stays.
WriteQa(p) ==
  LET passed == \A c \in Chunks : loaded[p].document[c].text \notin Broken IN
  /\ pc[p] = "qa"
  /\ html' = [html EXCEPT !.passed = passed]
  /\ \E empty \in EmptyPages :
       /\ loaded' = [loaded EXCEPT ![p].again = passed /\ Kind = "pdf" /\ empty]
       /\ Goto(p, IF ~passed THEN "refused"
                  ELSE IF Kind = "html" THEN "pages"
                  ELSE IF empty THEN "status" ELSE "bundle")
  /\ UNCHANGED <<document, results, manifest, paper, bundle, lock, paperLock, call>>

\* The ZIP is made of whatever html/ holds.
CreateBundle(p) ==
  /\ pc[p] = "bundle"
  /\ bundle' = [of |-> html.of, whole |-> html.whole]
  /\ Goto(p, "publish")
  /\ UNCHANGED <<document, results, manifest, paper, html, lock, paperLock, call, loaded>>

FinalStatus(l) ==
  IF Kind = "pdf" /\ (l.again \/ \E c \in Chunks : l.document[c].warned)
  THEN "needs_review" ELSE "completed"

Publish(p) ==
  LET m == [status |-> FinalStatus(loaded[p]), version |-> "current",
            completed |-> Translated(loaded[p].document)] IN
  /\ pc[p] = "publish"
  /\ manifest' = m
  /\ loaded' = [loaded EXCEPT ![p].manifest = m]
  /\ Goto(p, IF Kind = "pdf" THEN "sync" ELSE "finalized")
  /\ UNCHANGED <<document, results, paper, html, bundle, lock, paperLock, call>>

Leave(p) ==
  /\ lock' = IF lock = p THEN NoOne ELSE lock
  /\ paperLock' = IF paperLock = p THEN NoOne ELSE paperLock
  /\ Goto(p, "idle")
  /\ call' = [call EXCEPT ![p] = NoCall]
  /\ loaded' = [loaded EXCEPT ![p] = NoLoad]

Returning == {"saved", "finalized", "refused"}

Return(p) ==
  /\ pc[p] \in Returning
  /\ Leave(p)
  /\ UNCHANGED files

\* The call ends between two writes, or within one of a page, and the kernel drops
\* its flocks.
Abort(p) ==
  /\ Aborts
  /\ pc[p] \notin {"idle"} \cup Returning
  /\ Leave(p)
  /\ UNCHANGED files

-------------------------------------------------------------------------------
\* _promote_into_manifest reads and replaces papertrans-job.json under its flock.
ReadPromoted(q) ==
  /\ Kind = "pdf"
  /\ pc[q] = "idle"
  /\ paperLock = NoOne
  /\ paperLock' = q
  /\ loaded' = [loaded EXCEPT ![q].paper = paper]
  /\ Goto(q, "promote")
  /\ UNCHANGED <<files, lock, call>>

WritePromoted(q) ==
  /\ pc[q] = "promote"
  /\ paper' = [loaded[q].paper EXCEPT !.promoted = TRUE]
  /\ Leave(q)
  /\ UNCHANGED <<document, results, manifest, html, bundle>>

\* A release with another renderer is installed while no call runs.  Only a release
\* put back to the one that rendered the pages would call them current again.
Upgrade ==
  /\ \A p \in Actors : pc[p] = "idle"
  /\ manifest.version \in {"older", "current"}
  /\ \E v \in Releases : manifest' = [manifest EXCEPT !.version = v]
  /\ UNCHANGED <<document, results, paper, html, bundle, lock, paperLock, pc, call, loaded>>

Save(p) ==
  \E c \in Chunks, t \in Texts :
    \/ \E over \in BOOLEAN : BeginSave(p, c, t, over) \/ BeginReplay(p, c, t, over)
    \/ RefuseSave(p, c, t)

Finalize(p) == BeginFinalizeCurrent(p) \/ BeginFinalize(p)

SaveSteps(p) == WriteDocument(p) \/ WriteResult(p) \/ WriteManifest(p)
SyncSteps(p) == ReadPaper(p) \/ WritePaper(p)
RenderSteps(p) ==
  WriteStatus(p) \/ RemoveAssets(p) \/ WriteIndex(p) \/ WritePages(p) \/ WriteQa(p)
FinalizeSteps(p) == RenderSteps(p) \/ CreateBundle(p) \/ Publish(p)

Continue(p) == SaveSteps(p) \/ SyncSteps(p) \/ FinalizeSteps(p) \/ Return(p)

Promotion(q) == ReadPromoted(q) \/ WritePromoted(q)

Next ==
  \/ \E p \in Clients : Save(p) \/ Finalize(p) \/ Continue(p)
  \/ \E q \in Promoters : Promotion(q)
  \/ \E p \in Actors : Abort(p)
  \/ Upgrade

Spec == Init /\ [][Next]_vars

\* next_chunk gives a client a chunk the document has no text for.
SaveNext(p) == \E c \in Pending, t \in Texts : BeginSave(p, c, t, FALSE)

\* A call that runs goes on, and a client that comes back again and again saves
\* the chunk next_chunk gives it or finalizes.
Fairness ==
  /\ \A p \in Clients : WF_vars(Continue(p)) /\ SF_vars(SaveNext(p)) /\ SF_vars(Finalize(p))
  /\ \A q \in Promoters : WF_vars(WritePromoted(q))

FairSpec == Spec /\ Fairness

-------------------------------------------------------------------------------
Manifests == [status : Statuses, completed : SUBSET Chunks, version : Versions]
Papers == [status : Statuses, provider : {"none", "mcp"}, completed : SUBSET Chunks,
           promoted : BOOLEAN]
Rendering == {"status", "assets", "index", "pages", "qa"}
Labels == {"idle", "document", "result", "manifest", "sync", "syncing", "bundle", "publish",
           "promote"} \cup Rendering \cup Returning
Calls == [op : {"none", "save", "finalize"}, chunk : Chunks \cup {NoOne},
          text : Texts \cup {NoText}, overwrite : BOOLEAN]
Loads == [manifest : Manifests, paper : Papers, replay : BOOLEAN, again : BOOLEAN,
          document : [Chunks -> Block]]

TypeOK ==
  /\ document \in [Chunks -> Block]
  /\ results \in [Chunks -> Block]
  /\ manifest \in Manifests
  /\ paper \in Papers
  /\ html \in [of : Showing, whole : BOOLEAN, passed : BOOLEAN]
  /\ bundle \in [of : Showing, whole : BOOLEAN]
  /\ lock \in Clients \cup {NoOne}
  /\ paperLock \in Actors \cup {NoOne}
  /\ pc \in [Actors -> Labels]
  /\ call \in [Actors -> Calls]
  /\ loaded \in [Actors -> Loads]

\* Mutant: a preview left for review is publishable.
PublishedForReview ==
  IF Kind = "pdf"
  THEN paper.status \in Final
  ELSE manifest.status \in Final /\ manifest.version \in {"older", "current"}

\* isArtifactManifestPublishable on the manifest the Web reads first.
Published ==
  IF Kind = "pdf"
  THEN paper.status \in Final /\ (paper.provider # "none" \/ paper.status # "needs_review")
  ELSE manifest.status \in Final /\ manifest.version \in {"older", "current"}

\* No file speaks of a translation the files before it do not hold, wherever
\* calls end: results and both manifests never run ahead of the document, and a
\* job is ready or final only when every chunk has a text (_save_chunk_locked).
NoFileAhead ==
  /\ \A c \in Chunks : results[c].text # NoText => document[c].text # NoText
  /\ manifest.completed \cup paper.completed \subseteq Translated(document)
  /\ {manifest.status, paper.status} \cap ({"ready_to_finalize", "completed"}) # {}
        => Translated(document) = Chunks

\* The Web never offers a page or a ZIP with an untranslated chunk, in particular
\* never the preview of a prepared PDF (manifestArtifactsPublished), and never a
\* torn ZIP.
PublishedIsTranslated ==
  Published => bundle.whole /\ \A c \in Chunks : html.of[c] # NoText /\ bundle.of[c] # NoText

\* Pages that finalize need not render again have passed QA and are the ones in
\* the ZIP (_artifacts_current).
CurrentArtifactsPassed ==
  ArtifactsCurrent => html.passed /\ html.whole /\ bundle = [of |-> html.of, whole |-> TRUE]

\* Between calls the Web offers what the document holds: the ZIP is whole and of
\* this text, and so are the pages, unless a rendering over published pages was cut
\* short.  That takes an installed release first, and the torn pages are then not
\* current to the manifest, so that the next finalize renders them again.  It needs
\* overwrites or ends of calls to be excluded: an overwrite that ends after its first
\* write leaves the old pages published.
PublishedIsCurrent ==
  lock = NoOne /\ Published =>
    /\ bundle = [of |-> TextOf(document), whole |-> TRUE]
    /\ html.of = TextOf(document)
    /\ html.whole \/ ~ArtifactsCurrent

\* A save that answers has repaired whatever earlier calls left half written:
\* document, result and manifests agree, and pages of the old text are withdrawn
\* (the retry of CHANGELOG.md:21).
SaveRepairs ==
  \A p \in Clients : pc[p] = "saved" =>
    LET c == call[p].chunk IN
    /\ document[c].text = call[p].text
    /\ results[c] = document[c]
    /\ manifest.completed = Translated(document)
    /\ ~Published
    /\ Kind = "pdf" => paper.status = manifest.status /\ paper.completed = manifest.completed

\* A finalize that answers leaves a published job, also when an earlier one ended
\* between the two manifests (_finalize_locked).
FinalizePublishes ==
  \A p \in Clients : pc[p] = "finalized" =>
    /\ ArtifactsCurrent
    /\ Published
    /\ Kind = "pdf" => paper.status = manifest.status

\* The text of a chunk changes only on a client's request to overwrite it.
OverwriteIsAsked ==
  [][\A c \in Chunks : document[c].text \notin {NoText, document'[c].text} =>
       \E p \in Clients : pc[p] = "document" /\ call[p].chunk = c /\ call[p].overwrite]_vars

\* A promotion outlives every later manifest, and it never puts back a status
\* that the job has since left (_promote_into_manifest, write_pdf_job_manifest).
ManifestUpdatesKept ==
  [][ /\ paper.promoted => paper'.promoted
      /\ paper'.status # paper.status => \E p \in Clients : pc[p] = "syncing" ]_vars

\* The job keeps the promise of TranslationRecord.
Record == INSTANCE TranslationRecord
            WITH text <- TextOf(document), pages <- html.of, whole <- html.whole
ImplementsTranslationRecord == Record!Spec

\* finalize answers only with pages of the persisted document.
FinalizedIsCurrent ==
  \A p \in Clients : pc[p] = "finalized" => html.of = TextOf(document)

\* A save sent again with the same arguments leaves a published paper published.
\* The code does not keep this: the replay withdraws the pages and the status.
ReplayChangesNothing ==
  [][\A p \in Clients : pc[p] \in {"manifest", "syncing"} /\ loaded[p].replay /\ Published
                              => Published']_vars

\* When calls stop being cut short, a client that comes back gets the job
\* published with whole pages, whatever files the earlier calls left half written.
JobCompletes == <>[][\A p \in Actors : ~Abort(p)]_vars => []<>(Published /\ html.whole)

=============================================================================
