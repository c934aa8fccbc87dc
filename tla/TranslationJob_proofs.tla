------------------------- MODULE TranslationJob_proofs -------------------------
(* TranslationJob for any clients, promoters, chunks and texts.  One invariant, *)
(* JobInv, says what each point of a call knows about the files; the safety     *)
(* properties, the refinement of TranslationRecord and the action properties    *)
(* follow from it.  The last part is about PrepareJob, which makes the job's    *)
(* directory.                                                                   *)
EXTENDS TranslationJob, PrepareJob, TLAPS

-------------------------------------------------------------------------------
(* Types.                                                                       *)

USE KindAssumption, FlagAssumption, ReleaseAssumption, TextAssumption, ActorAssumption

LEMMA TextOfType ==
  ASSUME NEW doc \in [Chunks -> Block]
  PROVE  TextOf(doc) \in Showing /\ Translated(doc) \in SUBSET Chunks
BY DEF TextOf, Translated, Showing, Block

LEMMA SavedBlockType ==
  ASSUME NEW old \in Block, NEW t \in Texts
  PROVE  SavedBlock(old, t) \in Block /\ SavedBlock(old, t).text = t
BY DEF SavedBlock, Block

LEMMA NoTypes == NoLoad \in Loads /\ NoCall \in Calls
BY DEF NoLoad, NoCall, Loads, Calls, NoManifest, NoPaper, Manifests, Papers, Statuses, Versions,
       Block, NoBlock

LEMMA RefreshedType ==
  ASSUME NEW m \in Manifests, NEW doc \in [Chunks -> Block]
  PROVE  /\ Refreshed(m, doc) \in Manifests
         /\ Refreshed(m, doc).completed = Translated(doc)
         /\ Refreshed(m, doc).status \in {"ready_to_finalize", "prepared", "translating"}
         /\ Refreshed(m, doc).status = "ready_to_finalize" <=> Translated(doc) = Chunks
         /\ Refreshed(m, doc).version = m.version
BY TextOfType DEF Refreshed, Manifests, Statuses

LEMMA LoadedManifestType ==
  ASSUME TypeOK
  PROVE  LoadedManifest \in Manifests
BY TextOfType DEF LoadedManifest, TypeOK, Manifests, Statuses, Versions

LEMMA TypeInit == Init => TypeOK
<1> SUFFICES ASSUME Init PROVE TypeOK
  OBVIOUS
<1>1. document \in [Chunks -> Block] /\ results = document
  BY DEF Init, Block, NoBlock
<1>2. TextOf(document) \in Showing
  BY <1>1, TextOfType
<1>3. manifest \in Manifests
  BY DEF Init, NoManifest, Manifests, Statuses, Versions
<1>4. paper \in Papers
  <2>1. NoPaper \in Papers
    BY DEF NoPaper, Papers, Statuses
  <2>2. PreparedPaper \subseteq Papers
    BY <2>1 DEF PreparedPaper, Papers, Statuses
  <2> QED
    BY <2>1, <2>2 DEF Init
<1>5. /\ html \in [of : Showing, whole : BOOLEAN, passed : BOOLEAN]
      /\ bundle \in [of : Showing, whole : BOOLEAN]
  BY <1>2 DEF Init
<1>6. /\ lock \in Clients \cup {NoOne} /\ paperLock \in Actors \cup {NoOne}
      /\ pc \in [Actors -> Labels]
  BY DEF Init, Labels
<1>7. call \in [Actors -> Calls] /\ loaded \in [Actors -> Loads]
  BY NoTypes DEF Init
<1> QED
  BY <1>1, <1>3, <1>4, <1>5, <1>6, <1>7 DEF TypeOK

LEMMA EnterType ==
  ASSUME TypeOK, NEW p \in Clients, NEW args \in Calls, NEW doc \in [Chunks -> Block],
         NEW replay \in BOOLEAN, NEW label \in Labels,
         Enter(p, args, doc, replay), Goto(p, label)
  PROVE  TypeOK'
<1>1. [NoLoad EXCEPT !.manifest = LoadedManifest, !.document = doc, !.replay = replay] \in Loads
  BY LoadedManifestType, NoTypes DEF Loads
<1> QED
  BY <1>1 DEF TypeOK, Enter, Goto, files, Actors

LEMMA LeaveType ==
  ASSUME TypeOK, NEW p \in Actors, Leave(p),
         UNCHANGED <<document, results, manifest, html, bundle>>, paper' \in Papers
  PROVE  TypeOK'
BY NoTypes DEF TypeOK, Leave, Goto, Labels

LEMMA TypeStep == TypeOK /\ [Next]_vars => TypeOK'
<1> SUFFICES ASSUME TypeOK, [Next]_vars PROVE TypeOK'
  OBVIOUS
<1>1. CASE UNCHANGED vars
  BY <1>1 DEF vars, files, TypeOK
<1>2. ASSUME NEW p \in Clients, Save(p) PROVE TypeOK'
  <2> PICK c \in Chunks, t \in Texts :
        \/ \E over \in BOOLEAN : BeginSave(p, c, t, over) \/ BeginReplay(p, c, t, over)
        \/ RefuseSave(p, c, t)
    BY <1>2 DEF Save
  <2>1. \A over \in BOOLEAN : Saving(c, t, over) \in Calls
    BY DEF Saving, Calls
  <2>2. document \in [Chunks -> Block] /\ [document EXCEPT ![c] = SavedBlock(document[c], t)] \in [Chunks -> Block]
    BY SavedBlockType DEF TypeOK
  <2>3. ASSUME NEW over \in BOOLEAN, BeginSave(p, c, t, over) PROVE TypeOK'
    BY <2>1, <2>2, <2>3, EnterType DEF BeginSave, Labels
  <2>4. ASSUME NEW over \in BOOLEAN, BeginReplay(p, c, t, over) PROVE TypeOK'
    BY <2>1, <2>2, <2>4, EnterType DEF BeginReplay, Labels
  <2>5. CASE RefuseSave(p, c, t)
    BY <2>1, <2>2, <2>5, EnterType DEF RefuseSave, Labels, Returning
  <2> QED
    BY <2>3, <2>4, <2>5
<1>3. ASSUME NEW p \in Clients, Finalize(p) PROVE TypeOK'
  <2>1. Finalizing \in Calls
    BY DEF Finalizing, NoCall, Calls
  <2>2. document \in [Chunks -> Block]
    BY DEF TypeOK
  <2>3. CASE BeginFinalizeCurrent(p)
    BY <2>1, <2>2, <2>3, EnterType DEF BeginFinalizeCurrent, Labels, Returning
  <2>4. CASE BeginFinalize(p)
    BY <2>1, <2>2, <2>4, EnterType DEF BeginFinalize, Labels, Rendering, Returning
  <2> QED
    BY <1>3, <2>3, <2>4 DEF Finalize
<1>4. ASSUME NEW p \in Clients, Continue(p) PROVE TypeOK'
  <2> USE DEF TypeOK, Goto, Labels, Rendering, Returning, Actors
  <2>0. loaded[p] \in Loads /\ call[p] \in Calls
    OBVIOUS
  <2>1. CASE WriteDocument(p)
    BY <2>0, <2>1 DEF WriteDocument, Loads
  <2>2. CASE WriteResult(p)
    BY <2>0, <2>2 DEF WriteResult, Loads
  <2>3. CASE WriteManifest(p)
    <3> DEFINE m == Refreshed(loaded[p].manifest, loaded[p].document)
    <3>1. m \in Manifests
      BY <2>0, RefreshedType DEF Loads
    <3>2. [loaded[p] EXCEPT !.manifest = m] \in Loads
      BY <2>0, <3>1 DEF Loads
    <3> HIDE DEF m
    <3>3. /\ manifest' = m /\ loaded' = [loaded EXCEPT ![p].manifest = m]
          /\ pc' = [pc EXCEPT ![p] = IF Kind = "pdf" THEN "sync" ELSE "saved"]
          /\ UNCHANGED <<document, results, paper, html, bundle, lock, paperLock, call>>
      BY <2>3 DEF WriteManifest, m
    <3> QED
      BY <3>1, <3>2, <3>3
  <2>4. CASE ReadPaper(p)
    <3>1. [loaded[p] EXCEPT !.paper = paper] \in Loads
      BY <2>0 DEF Loads
    <3> QED
      BY <2>4, <3>1 DEF ReadPaper, files
  <2>5. CASE WritePaper(p)
    <3>1. [status |-> loaded[p].manifest.status, provider |-> "mcp",
           completed |-> Translated(loaded[p].document),
           promoted |-> loaded[p].paper.promoted] \in Papers
      BY <2>0, TextOfType DEF Loads, Manifests, Papers
    <3> QED
      BY <2>5, <3>1 DEF WritePaper
  <2>6. CASE RenderSteps(p)
    <3>1. TextOf(loaded[p].document) \in Showing
      BY <2>0, TextOfType DEF Loads
    <3>2. \A b \in BOOLEAN : [loaded[p] EXCEPT !.again = b] \in Loads
      BY <2>0 DEF Loads
    <3>3. CASE WriteStatus(p)
      BY <2>0, <3>3 DEF WriteStatus, Loads
    <3>4. CASE RemoveAssets(p)
      BY <3>4 DEF RemoveAssets
    <3>5. CASE WriteIndex(p)
      BY <3>1, <3>5 DEF WriteIndex
    <3>6. CASE WritePages(p)
      <4>1. (loaded[p].again \/ Kind = "html") \in BOOLEAN
        OBVIOUS
      <4>2. loaded' = [loaded EXCEPT ![p] = [loaded[p] EXCEPT !.again = loaded[p].again \/ Kind = "html"]]
        BY <3>6 DEF WritePages
      <4>3. [loaded[p] EXCEPT !.again = loaded[p].again \/ Kind = "html"] \in Loads
        BY <3>2, <4>1
      <4>4. loaded' \in [Actors -> Loads]
        BY <4>2, <4>3
      <4>5. /\ html' = [html EXCEPT !.whole = TRUE]
            /\ pc' = [pc EXCEPT ![p] = IF Kind = "html" THEN "status"
                                       ELSE IF loaded[p].again THEN "bundle" ELSE "qa"]
            /\ UNCHANGED <<document, results, manifest, paper, bundle, lock, paperLock, call>>
        BY <3>6 DEF WritePages
      <4>6. html' \in [of : Showing, whole : BOOLEAN, passed : BOOLEAN] /\ pc' \in [Actors -> Labels]
        BY <4>5
      <4> QED
        BY <4>4, <4>5, <4>6
    <3>7. CASE WriteQa(p)
      <4> PICK empty \in EmptyPages, passed \in BOOLEAN :
            /\ html' = [html EXCEPT !.passed = passed]
            /\ loaded' = [loaded EXCEPT ![p].again = passed /\ Kind = "pdf" /\ empty]
            /\ pc' = [pc EXCEPT ![p] = IF ~passed THEN "refused"
                                       ELSE IF Kind = "html" THEN "pages"
                                       ELSE IF empty THEN "status" ELSE "bundle"]
        BY ZenonT(40), <3>7 DEF WriteQa
      <4>1. (passed /\ Kind = "pdf" /\ empty) \in BOOLEAN
        OBVIOUS
      <4> QED
        BY <3>2, <3>7, <4>1 DEF WriteQa
    <3> QED
      BY <2>6, <3>3, <3>4, <3>5, <3>6, <3>7 DEF RenderSteps
  <2>7. CASE CreateBundle(p)
    BY <2>7 DEF CreateBundle
  <2>8. CASE Publish(p)
    <3> DEFINE m == [status |-> FinalStatus(loaded[p]), version |-> "current",
                     completed |-> Translated(loaded[p].document)]
    <3>1. m \in Manifests
      BY <2>0, TextOfType DEF Loads, Manifests, FinalStatus, Statuses, Versions
    <3>2. [loaded[p] EXCEPT !.manifest = m] \in Loads
      BY <2>0, <3>1 DEF Loads
    <3> HIDE DEF m
    <3>3. /\ manifest' = m /\ loaded' = [loaded EXCEPT ![p].manifest = m]
          /\ pc' = [pc EXCEPT ![p] = IF Kind = "pdf" THEN "sync" ELSE "finalized"]
          /\ UNCHANGED <<document, results, paper, html, bundle, lock, paperLock, call>>
      BY <2>8 DEF Publish, m
    <3> QED
      BY <3>1, <3>2, <3>3
  <2>9. CASE Return(p)
    BY <2>9, LeaveType DEF Return, files
  <2> QED
    BY <1>4, <2>1, <2>2, <2>3, <2>4, <2>5, <2>6, <2>7, <2>8, <2>9
    DEF Continue, SaveSteps, SyncSteps, FinalizeSteps
<1>5. ASSUME NEW q \in Promoters, Promotion(q) PROVE TypeOK'
  <2>1. CASE ReadPromoted(q)
    <3>1. [loaded[q] EXCEPT !.paper = paper] \in Loads
      BY DEF TypeOK, Loads, Actors
    <3> QED
      BY <2>1, <3>1 DEF ReadPromoted, TypeOK, files, Goto, Labels, Actors
  <2>2. CASE WritePromoted(q)
    <3>1. q \in Actors /\ [loaded[q].paper EXCEPT !.promoted = TRUE] \in Papers
      BY ZenonT(40) DEF TypeOK, Loads, Papers, Actors
    <3> QED
      BY <2>2, <3>1, LeaveType DEF WritePromoted
  <2> QED
    BY <1>5, <2>1, <2>2 DEF Promotion
<1>6. ASSUME NEW p \in Actors, Abort(p) PROVE TypeOK'
  BY <1>6, LeaveType DEF Abort, files, TypeOK
<1>7. CASE Upgrade
  BY <1>7 DEF Upgrade, TypeOK, Manifests, Versions
<1> QED
  BY <1>1, <1>2, <1>3, <1>4, <1>5, <1>6, <1>7 DEF Next

\* Every file, lock and local of a job holds the values the code gives it, for
\* any clients, promoters, chunks and texts.
THEOREM TypeCorrect == Spec => []TypeOK
BY TypeInit, TypeStep, PTL DEF Spec

-------------------------------------------------------------------------------
(* The invariant: what each point of a call knows about the files.              *)

\* Only one client is inside a call, and it holds the flock.
Serialized == \A p \in Clients : pc[p] # "idle" => lock = p

\* Whoever holds the flock of papertrans-job.json has read the present one.
PaperSeen ==
  \A p \in Actors : pc[p] \in {"syncing", "promote"} => paperLock = p /\ loaded[p].paper = paper

Roles ==
  /\ \A p \in Clients : pc[p] # "promote"
  /\ \A q \in Promoters : pc[q] \in {"idle", "promote"}

Writing == {"result", "manifest"}
Syncing == {"sync", "syncing"}
Finishing == {"bundle", "publish"}

\* What a client has read is what the files hold.
ReadIsCurrent(p) ==
  /\ pc[p] \notin {"idle", "document"} => loaded[p].document = document
  /\ pc[p] \in Syncing => loaded[p].manifest = manifest /\ Kind = "pdf"

\* A save whose document is about to be written.
Asked(p) ==
  LET c == call[p].chunk IN
  /\ call[p].op = "save" /\ c \in Chunks /\ call[p].text \in Texts
  /\ loaded[p].document = [document EXCEPT ![c] = SavedBlock(document[c], call[p].text)]
  /\ document[c].text = NoText \/ (call[p].overwrite /\ Overwrites)

IsSave(p, where) == pc[p] \in where /\ (pc[p] \in Syncing => call[p].op = "save")

SaveProgress(p) ==
  /\ pc[p] = "document" => Asked(p)
  /\ IsSave(p, Writing \cup Syncing \cup {"saved"}) =>
       /\ call[p].op = "save" /\ call[p].chunk \in Chunks
       /\ document[call[p].chunk].text = call[p].text
  /\ IsSave(p, {"manifest", "saved"} \cup Syncing) =>
       results[call[p].chunk] = document[call[p].chunk]
  /\ IsSave(p, {"saved"} \cup Syncing) =>
       /\ manifest.status \notin {"completed", "needs_review"}
       /\ manifest.completed = Translated(document)
  /\ pc[p] = "saved" /\ Kind = "pdf" =>
       paper.status = manifest.status /\ paper.completed = manifest.completed

\* The call is past the QA, past the last page, or past the first one.
Checked(p) ==
  \/ pc[p] \in Finishing \/ (pc[p] = "pages" /\ Kind = "html")
  \/ pc[p] \in Rendering /\ loaded[p].again
Complete(p) ==
  \/ pc[p] \in Finishing \/ (pc[p] = "qa" /\ Kind = "pdf")
  \/ pc[p] = "status" /\ loaded[p].again /\ Kind = "html"
Shown(p) == pc[p] \in {"pages", "qa"} \/ Complete(p)

FinalizeProgress(p) ==
  /\ pc[p] \in Rendering \cup Finishing =>
       Translated(document) = Chunks /\ ~ArtifactsCurrent /\ call[p].op = "finalize"
  /\ Checked(p) => html.passed
  /\ Complete(p) => html.whole
  /\ pc[p] = "index" => ~html.whole
  /\ Shown(p) => html.of = TextOf(document)
  /\ pc[p] = "publish" => bundle = [of |-> html.of, whole |-> TRUE]
  /\ pc[p] = "finalized" \/ (pc[p] \in Syncing /\ call[p].op # "save") => ArtifactsCurrent
  /\ pc[p] = "finalized" /\ Kind = "pdf" =>
       paper.status = manifest.status /\ paper.provider = "mcp"

CallInv(p) == ReadIsCurrent(p) /\ SaveProgress(p) /\ FinalizeProgress(p)

Full(s) == \A c \in Chunks : s[c] # NoText

\* No release is put back to the one that rendered the pages.
Forwards == "current" \notin Releases

\* What the files say of each other, inside calls and between them.
FilesInv ==
  /\ NoFileAhead
  /\ manifest.status \in {"completed", "needs_review"} =>
       Translated(document) = Chunks /\ Full(html.of) /\ Full(bundle.of) /\ bundle.whole
  /\ PublishedIsTranslated
  /\ Forwards => CurrentArtifactsPassed

JobInv ==
  /\ TypeOK
  /\ Serialized
  /\ PaperSeen
  /\ Roles
  /\ \A p \in Clients : CallInv(p)
  /\ FilesInv

LEMMA TextOfFull ==
  ASSUME NEW doc \in [Chunks -> Block]
  PROVE  Translated(doc) = Chunks <=> Full(TextOf(doc))
BY DEF Translated, TextOf, Full

LEMMA JobInit == Init => JobInv
<1> SUFFICES ASSUME Init PROVE JobInv
  OBVIOUS
<1>1. TypeOK
  BY TypeInit
<1>2. \A p \in Actors : pc[p] = "idle"
  BY DEF Init
<1>3. Serialized /\ PaperSeen /\ Roles /\ \A p \in Clients : CallInv(p)
  BY <1>2 DEF Serialized, PaperSeen, Roles, CallInv, ReadIsCurrent, SaveProgress, FinalizeProgress,
       Checked, Complete, Shown, Rendering, Finishing,
              IsSave, Writing, Syncing, Actors
<1>4. /\ manifest.status \in {"absent", "prepared"} /\ manifest.completed = {}
      /\ \A c \in Chunks : results[c].text = NoText
  BY DEF Init, NoManifest, NoBlock
<1>5. /\ paper.completed = {}
      /\ paper.status \in {"absent", "prepared"} \/ (paper.status = "needs_review" /\ paper.provider = "none")
  BY DEF Init, PreparedPaper, NoPaper
<1>6. ~Published
  BY <1>4, <1>5 DEF Published, Final
<1>7. NoFileAhead
  BY <1>4, <1>5 DEF NoFileAhead
<1>8. PublishedIsTranslated /\ CurrentArtifactsPassed
  BY <1>4, <1>6 DEF PublishedIsTranslated, CurrentArtifactsPassed, ArtifactsCurrent, Final
<1> QED
  BY <1>1, <1>3, <1>4, <1>7, <1>8 DEF JobInv, FilesInv

\* No other client is inside a call while one is, or while the flock is free.
LEMMA Alone ==
  ASSUME JobInv, NEW p \in Clients, pc[p] # "idle" \/ lock = NoOne
  PROVE  \A v \in Clients \ {p} : pc[v] = "idle"
BY DEF JobInv, Serialized

\* For a step of a client only its own part of the invariant is left to show.
LEMMA ClientStep ==
  ASSUME JobInv, TypeOK', NEW p \in Clients, NEW label \in Labels \ {"promote"}, Goto(p, label),
         \A v \in Clients \ {p} : pc[v] = "idle", label # "idle" => lock' = p,
         PaperSeen', CallInv(p)', FilesInv'
  PROVE  JobInv'
<1>1. /\ pc'[p] = label
      /\ \A v \in Actors \ {p} : pc'[v] = pc[v]
  BY DEF JobInv, TypeOK, Goto, Actors
<1>2. Serialized'
  BY <1>1 DEF Serialized, Actors
<1>3. Roles'
  BY <1>1 DEF JobInv, Roles, Actors
<1>4. ASSUME NEW v \in Clients \ {p} PROVE CallInv(v)'
  <2>1. pc'[v] = "idle"
    BY <1>1 DEF Actors
  <2> QED
    BY <2>1 DEF CallInv, ReadIsCurrent, SaveProgress, FinalizeProgress,
         Checked, Complete, Shown, Rendering, Finishing,
        IsSave, Writing, Syncing
<1> QED
  BY <1>2, <1>3, <1>4 DEF JobInv

\* A step that leaves papertrans-job.json and its flock alone.
LEMMA PaperStep ==
  ASSUME JobInv, TypeOK', NEW p \in Clients, NEW label \in Labels \ {"promote", "syncing"}, Goto(p, label),
         UNCHANGED <<paper, paperLock>>, \A v \in Actors \ {p} : loaded'[v] = loaded[v]
  PROVE  PaperSeen'
BY DEF JobInv, TypeOK, PaperSeen, Goto, Actors

LEMMA FilesStep ==
  ASSUME JobInv, UNCHANGED files
  PROVE  FilesInv'
BY DEF JobInv, FilesInv, files, NoFileAhead, PublishedIsTranslated, CurrentArtifactsPassed,
       ArtifactsCurrent, Published, Translated, Full

\* The beginning of a call.
LEMMA EnterStep ==
  ASSUME JobInv, TypeOK', NEW p \in Clients, NEW args, NEW doc, NEW replay \in BOOLEAN,
         NEW label \in Labels \ {"promote", "syncing", "idle"},
         Enter(p, args, doc, replay), Goto(p, label), CallInv(p)'
  PROVE  JobInv'
<1>1. /\ lock = NoOne /\ lock' = p
      /\ UNCHANGED <<files, paperLock>>
      /\ \A v \in Actors \ {p} : loaded'[v] = loaded[v]
  BY DEF Enter, JobInv, TypeOK, Actors
<1>2. PaperSeen'
  BY <1>1, PaperStep DEF files
<1>3. FilesInv'
  BY <1>1, FilesStep
<1>4. \A v \in Clients \ {p} : pc[v] = "idle"
  BY <1>1, Alone
<1> QED
  BY <1>1, <1>2, <1>3, <1>4, ClientStep

LEMMA Entered ==
  ASSUME TypeOK, NEW p \in Clients, NEW args, NEW doc, NEW replay \in BOOLEAN, NEW label,
         Enter(p, args, doc, replay), Goto(p, label)
  PROVE  /\ pc'[p] = label /\ call'[p] = args
         /\ loaded'[p].document = doc /\ loaded'[p].manifest = LoadedManifest
         /\ loaded'[p].again = FALSE
         /\ UNCHANGED files
BY DEF TypeOK, Enter, Goto, Actors, NoLoad

LEMMA SaveInv ==
  ASSUME JobInv, TypeOK', NEW p \in Clients, Save(p)
  PROVE  JobInv'
<1> USE DEF JobInv, Labels, Returning
<1> PICK c \in Chunks, t \in Texts :
      \/ \E over \in BOOLEAN : BeginSave(p, c, t, over) \/ BeginReplay(p, c, t, over)
      \/ RefuseSave(p, c, t)
  BY DEF Save
<1>1. ASSUME NEW over \in BOOLEAN, BeginSave(p, c, t, over) PROVE JobInv'
  <2> DEFINE doc == [document EXCEPT ![c] = SavedBlock(document[c], t)]
  <2>1. /\ over => Overwrites
        /\ document[c].text = NoText \/ over
        /\ Enter(p, Saving(c, t, over), doc, FALSE) /\ Goto(p, "document")
    BY <1>1 DEF BeginSave
  <2> HIDE DEF doc
  <2>2. /\ pc'[p] = "document" /\ call'[p] = Saving(c, t, over)
        /\ loaded'[p].document = doc /\ UNCHANGED files
    BY <2>1, Entered
  <2>3. Asked(p)'
    BY <2>1, <2>2 DEF Asked, Saving, doc, files, SavedBlock
  <2>4. CallInv(p)'
    BY <2>2, <2>3 DEF CallInv, ReadIsCurrent, SaveProgress, FinalizeProgress,
         Checked, Complete, Shown, Rendering, Finishing,
        IsSave, Writing, Syncing
  <2> QED
    BY <2>1, <2>4, EnterStep
<1>2. ASSUME NEW over \in BOOLEAN, BeginReplay(p, c, t, over) PROVE JobInv'
  <2>1. /\ SavedBlock(document[c], t) = document[c]
        /\ Enter(p, Saving(c, t, over), document, TRUE) /\ Goto(p, "result")
    BY <1>2 DEF BeginReplay
  <2>2. /\ pc'[p] = "result" /\ call'[p] = Saving(c, t, over)
        /\ loaded'[p].document = document /\ UNCHANGED files
    BY ZenonT(40), <2>1, Entered
  <2>3. document[c].text = t
    <3>1. document[c] \in Block
      BY DEF TypeOK
    <3> QED
      BY <2>1, <3>1, SavedBlockType
  <2>4. CallInv(p)'
    BY <2>2, <2>3
    DEF CallInv, ReadIsCurrent, SaveProgress, FinalizeProgress, Checked, Complete, Shown, Rendering, Finishing,
        IsSave, Writing, Syncing, Saving, files
  <2> QED
    BY <2>1, <2>4, EnterStep
<1>3. CASE RefuseSave(p, c, t)
  <2>1. Enter(p, Saving(c, t, FALSE), document, FALSE) /\ Goto(p, "refused")
    BY <1>3 DEF RefuseSave
  <2>2. pc'[p] = "refused" /\ loaded'[p].document = document /\ UNCHANGED files
    BY <2>1, Entered
  <2>3. CallInv(p)'
    BY <2>2
    DEF CallInv, ReadIsCurrent, SaveProgress, FinalizeProgress, Checked, Complete, Shown, Rendering, Finishing,
        IsSave, Writing, Syncing, files
  <2> QED
    BY <2>1, <2>3, EnterStep
<1> QED
  BY <1>1, <1>2, <1>3


LEMMA FinalizeInv ==
  ASSUME JobInv, TypeOK', NEW p \in Clients, Finalize(p)
  PROVE  JobInv'
<1> USE DEF JobInv, Labels, Rendering, Returning
<1>1. CASE BeginFinalizeCurrent(p)
  <2>1. /\ ArtifactsCurrent
        /\ Enter(p, Finalizing, document, FALSE)
        /\ Goto(p, IF Kind = "pdf" THEN "sync" ELSE "finalized")
    BY <1>1 DEF BeginFinalizeCurrent
  <2>2. LoadedManifest = manifest
    <3>1. manifest.status # "absent"
      BY <2>1 DEF ArtifactsCurrent, Final
    <3> QED
      BY <3>1 DEF LoadedManifest
  <2>3. /\ pc'[p] = IF Kind = "pdf" THEN "sync" ELSE "finalized"
        /\ call'[p].op = "finalize" /\ loaded'[p].document = document
        /\ loaded'[p].manifest = manifest /\ UNCHANGED files
    <3>1. Finalizing.op = "finalize"
      BY DEF Finalizing, NoCall
    <3> QED
      BY <2>1, <2>2, <3>1, Entered
  <2>4. ArtifactsCurrent'
    BY <2>1, <2>3 DEF ArtifactsCurrent, files
  <2>5. CallInv(p)'
    BY <2>3, <2>4
    DEF CallInv, ReadIsCurrent, SaveProgress, FinalizeProgress, Checked, Complete, Shown, Rendering, Finishing,
        IsSave, Writing, Syncing, files
  <2> QED
    BY <2>1, <2>5, EnterStep
<1>2. CASE BeginFinalize(p)
  <2>1. /\ ~ArtifactsCurrent
        /\ Enter(p, Finalizing, document, FALSE)
        /\ Goto(p, IF Pending = {} THEN "status" ELSE "refused")
    BY <1>2 DEF BeginFinalize
  <2>2. /\ pc'[p] = IF Pending = {} THEN "status" ELSE "refused"
        /\ call'[p].op = "finalize" /\ loaded'[p].document = document /\ loaded'[p].again = FALSE
        /\ UNCHANGED files
    <3>1. Finalizing.op = "finalize"
      BY DEF Finalizing, NoCall
    <3> QED
      BY ZenonT(40), <2>1, <3>1, Entered
  <2>3. ~ArtifactsCurrent'
    BY <2>1, <2>2 DEF ArtifactsCurrent, files
  <2>4. pc'[p] = "status" => Translated(document)' = Chunks
    BY <2>2, TextOfType DEF Pending, Translated, TypeOK, files
  <2>5. CallInv(p)'
    BY <2>2, <2>3, <2>4
    DEF CallInv, ReadIsCurrent, SaveProgress, FinalizeProgress, Checked, Complete, Shown, Rendering, Finishing,
        IsSave, Writing, Syncing, files
  <2> QED
    BY <2>1, <2>5, EnterStep
<1> QED
  BY <1>1, <1>2 DEF Finalize

\* A text that is there stays there, and what a save has not touched stays.
LEMMA WriteDocumentInv ==
  ASSUME JobInv, TypeOK', NEW p \in Clients, WriteDocument(p)
  PROVE  JobInv'
<1> USE DEF JobInv
<1> DEFINE c == call[p].chunk
<1>1. /\ pc[p] = "document" /\ document' = loaded[p].document /\ Goto(p, "result")
      /\ UNCHANGED <<results, manifest, paper, html, bundle, lock, paperLock, call, loaded>>
  BY DEF WriteDocument
<1>2. Asked(p) /\ lock = p
  BY <1>1 DEF CallInv, SaveProgress, Serialized
<1>3. /\ call[p].op = "save" /\ c \in Chunks /\ call[p].text \in Texts
      /\ document' = [document EXCEPT ![c] = SavedBlock(document[c], call[p].text)]
  BY <1>1, <1>2 DEF Asked
<1>4. document'[c].text = call[p].text /\ document'[c].text # NoText
  BY <1>3, SavedBlockType DEF TypeOK
<1>5. \A k \in Chunks : document[k].text # NoText => document'[k].text # NoText
  BY <1>3, <1>4 DEF TypeOK
<1>6. Translated(document) \subseteq Translated(document)'
  BY <1>5 DEF Translated
<1>7. pc'[p] = "result"
  BY <1>1 DEF Goto, TypeOK, Actors
<1>8. CallInv(p)'
  BY <1>1, <1>3, <1>4, <1>7
  DEF CallInv, ReadIsCurrent, SaveProgress, FinalizeProgress, Checked, Complete, Shown, Rendering, Finishing,
        IsSave, Writing, Syncing
<1>9. FilesInv'
  <2>1. NoFileAhead'
    BY <1>1, <1>5, <1>6, TextOfType DEF FilesInv, NoFileAhead, Translated
  <2>2. (manifest.status \in {"completed", "needs_review"} =>
           Translated(document) = Chunks /\ Full(html.of) /\ Full(bundle.of) /\ bundle.whole)'
    BY <1>1, <1>6 DEF FilesInv, Translated, Full
  <2>3. PublishedIsTranslated' /\ (Forwards => CurrentArtifactsPassed')
    BY <1>1 DEF FilesInv, PublishedIsTranslated, Published, CurrentArtifactsPassed, ArtifactsCurrent
  <2> QED
    BY <2>1, <2>2, <2>3 DEF FilesInv
<1>10. PaperSeen'
  BY <1>1, PaperStep DEF Labels
<1> QED
  BY <1>1, <1>2, <1>8, <1>9, <1>10, Alone, ClientStep DEF Labels

LEMMA WriteResultInv ==
  ASSUME JobInv, TypeOK', NEW p \in Clients, WriteResult(p)
  PROVE  JobInv'
<1> USE DEF JobInv
<1> DEFINE c == call[p].chunk
<1>1. /\ pc[p] = "result" /\ results' = [results EXCEPT ![c] = loaded[p].document[c]]
      /\ Goto(p, "manifest")
      /\ UNCHANGED <<document, manifest, paper, html, bundle, lock, paperLock, call, loaded>>
  BY DEF WriteResult
<1>2. /\ lock = p /\ loaded[p].document = document /\ call[p].op = "save"
      /\ c \in Chunks /\ document[c].text = call[p].text
  BY <1>1 DEF CallInv, ReadIsCurrent, SaveProgress, IsSave, Writing, Syncing, Serialized
<1>3. results' = [results EXCEPT ![c] = document[c]]
  BY <1>1, <1>2
<1>4. pc'[p] = "manifest"
  BY <1>1 DEF Goto, TypeOK, Actors
<1>5. CallInv(p)'
  <2>1. results'[c] = document[c]
    BY <1>2, <1>3 DEF TypeOK
  <2> QED
    BY <1>1, <1>2, <1>4, <2>1
    DEF CallInv, ReadIsCurrent, SaveProgress, FinalizeProgress, Checked, Complete, Shown, Rendering, Finishing,
        IsSave, Writing, Syncing
<1>6. FilesInv'
  <2>1. NoFileAhead'
    BY <1>1, <1>2, <1>3 DEF FilesInv, NoFileAhead, TypeOK, Translated
  <2> QED
    BY <1>1, <2>1 DEF FilesInv, PublishedIsTranslated, Published, CurrentArtifactsPassed,
                      ArtifactsCurrent, Translated, Full
<1>7. PaperSeen'
  BY <1>1, PaperStep DEF Labels
<1> QED
  BY <1>1, <1>2, <1>5, <1>6, <1>7, Alone, ClientStep DEF Labels

LEMMA WriteManifestInv ==
  ASSUME JobInv, TypeOK', NEW p \in Clients, WriteManifest(p)
  PROVE  JobInv'
<1> USE DEF JobInv
<1> DEFINE m == Refreshed(loaded[p].manifest, loaded[p].document)
           label == IF Kind = "pdf" THEN "sync" ELSE "saved"
<1>1. /\ pc[p] = "manifest" /\ manifest' = m /\ Goto(p, label)
      /\ loaded' = [loaded EXCEPT ![p].manifest = m]
      /\ UNCHANGED <<document, results, paper, html, bundle, lock, paperLock, call>>
  BY DEF WriteManifest
<1>2. /\ lock = p /\ loaded[p].document = document /\ call[p].op = "save"
      /\ call[p].chunk \in Chunks /\ document[call[p].chunk].text = call[p].text
      /\ results[call[p].chunk] = document[call[p].chunk]
  BY <1>1 DEF CallInv, ReadIsCurrent, SaveProgress, IsSave, Writing, Syncing, Serialized
<1>3. loaded[p].manifest \in Manifests /\ p \in Actors
  BY DEF TypeOK, Loads, Actors
<1>4. /\ m.completed = Translated(document)
      /\ m.status \in {"ready_to_finalize", "prepared", "translating"}
      /\ m.status = "ready_to_finalize" => Translated(document) = Chunks
  BY <1>2, <1>3, RefreshedType DEF TypeOK
<1> HIDE DEF m
<1>5. /\ pc'[p] = label /\ loaded'[p].manifest = m /\ loaded'[p].document = document
      /\ \A v \in Actors \ {p} : loaded'[v] = loaded[v]
  BY <1>1, <1>2, <1>3 DEF Goto, TypeOK, Loads
<1>6. CallInv(p)'
  BY <1>1, <1>2, <1>4, <1>5
  DEF CallInv, ReadIsCurrent, SaveProgress, FinalizeProgress, Checked, Complete, Shown, Rendering, Finishing,
        IsSave, Writing, Syncing, Translated
<1>7. FilesInv'
  <2>1. NoFileAhead'
    BY <1>1, <1>4 DEF FilesInv, NoFileAhead, Translated
  <2>2. manifest'.status \notin {"completed", "needs_review"}
    BY <1>1, <1>4
  <2>3. PublishedIsTranslated'
    BY <1>1, <2>2 DEF FilesInv, PublishedIsTranslated, Published, Final
  <2> QED
    BY <2>1, <2>2, <2>3 DEF FilesInv, CurrentArtifactsPassed, ArtifactsCurrent, Final
<1>8. PaperSeen'
  BY <1>1, <1>5, PaperStep DEF Labels, Returning
<1> QED
  BY <1>1, <1>2, <1>6, <1>7, <1>8, Alone, ClientStep DEF Labels, Returning

LEMMA ReadPaperInv ==
  ASSUME JobInv, TypeOK', NEW p \in Clients, ReadPaper(p)
  PROVE  JobInv'
<1> USE DEF JobInv
<1>1. /\ pc[p] = "sync" /\ paperLock = NoOne /\ paperLock' = p /\ Goto(p, "syncing")
      /\ loaded' = [loaded EXCEPT ![p].paper = paper]
      /\ UNCHANGED <<files, lock, call>>
  BY DEF ReadPaper
<1>2. /\ pc'[p] = "syncing" /\ loaded'[p].paper = paper /\ lock = p
      /\ loaded'[p].document = loaded[p].document /\ loaded'[p].manifest = loaded[p].manifest
  BY <1>1 DEF TypeOK, Goto, Actors, Serialized, Loads
<1>3. CallInv(p)'
  BY <1>1, <1>2
  DEF CallInv, ReadIsCurrent, SaveProgress, FinalizeProgress, Checked, Complete, Shown, Rendering, Finishing,
        IsSave, Writing, Syncing, files,
      Translated, ArtifactsCurrent
<1>4. PaperSeen'
  <2>1. \A v \in Actors \ {p} : pc'[v] \notin {"syncing", "promote"}
    BY <1>1 DEF PaperSeen, TypeOK, Goto, Actors
  <2> QED
    BY <1>1, <1>2, <2>1 DEF PaperSeen, files
<1>5. FilesInv'
  BY <1>1, FilesStep
<1> QED
  BY <1>1, <1>2, <1>3, <1>4, <1>5, Alone, ClientStep DEF Labels

LEMMA WritePaperInv ==
  ASSUME JobInv, TypeOK', NEW p \in Clients, WritePaper(p)
  PROVE  JobInv'
<1> USE DEF JobInv
<1> DEFINE label == IF call[p].op = "save" THEN "saved" ELSE "finalized"
<1>1. /\ pc[p] = "syncing" /\ Goto(p, label) /\ paperLock' = NoOne
      /\ paper'.status = loaded[p].manifest.status /\ paper'.provider = "mcp"
      /\ paper'.completed = Translated(loaded[p].document)
      /\ UNCHANGED <<document, results, manifest, html, bundle, lock, call, loaded>>
  BY DEF WritePaper
<1>2. /\ lock = p /\ paperLock = p /\ Kind = "pdf"
      /\ loaded[p].document = document /\ loaded[p].manifest = manifest
  BY <1>1 DEF CallInv, ReadIsCurrent, Serialized, PaperSeen, Actors, Syncing
<1>3. pc'[p] = label
  BY <1>1 DEF TypeOK, Goto, Actors
<1>4. /\ paper'.status = manifest.status /\ paper'.completed = Translated(document)
  BY <1>1, <1>2
<1>5. CallInv(p)'
  <2>1. CASE call[p].op = "save"
    BY <1>1, <1>2, <1>3, <1>4, <2>1
    DEF CallInv, ReadIsCurrent, SaveProgress, FinalizeProgress, Checked, Complete, Shown, Rendering, Finishing,
        IsSave, Writing, Syncing, Translated
  <2>2. CASE call[p].op # "save"
    <3>1. ArtifactsCurrent /\ ArtifactsCurrent'
      BY <1>1, <2>2 DEF CallInv, FinalizeProgress, Checked, Complete, Shown, Rendering, Finishing,
        Syncing, ArtifactsCurrent
    <3> QED
      BY <1>1, <1>2, <1>3, <1>4, <2>2, <3>1
      DEF CallInv, ReadIsCurrent, SaveProgress, FinalizeProgress,
           Checked, Complete, Shown, Rendering, Finishing,
        IsSave, Writing, Syncing
  <2> QED
    BY <2>1, <2>2
<1>6. FilesInv'
  <2>1. NoFileAhead'
    BY <1>1, <1>4 DEF FilesInv, NoFileAhead, Translated
  <2>2. PublishedIsTranslated'
    BY <1>1, <1>2, <1>4 DEF FilesInv, PublishedIsTranslated, Published, Final, Full
  <2> QED
    BY <1>1, <2>1, <2>2 DEF FilesInv, CurrentArtifactsPassed, ArtifactsCurrent, Translated, Full
<1>7. PaperSeen'
  <2>1. \A v \in Actors : pc'[v] \notin {"syncing", "promote"}
    BY <1>1, <1>2, <1>3 DEF PaperSeen, TypeOK, Goto, Actors
  <2> QED
    BY <2>1 DEF PaperSeen
<1> QED
  BY <1>1, <1>2, <1>5, <1>6, <1>7, Alone, ClientStep DEF Labels, Returning

\* The pages are rendered from the document, which is complete.  What a step of the
\* rendering leaves alone, whatever it is.
LEMMA RenderStep ==
  ASSUME JobInv, TypeOK', NEW p \in Clients, pc[p] \in Rendering,
         NEW label \in Rendering \cup {"bundle", "refused"}, Goto(p, label),
         html'.of \in {html.of, TextOf(document)},
         loaded'[p].document = loaded[p].document,
         \A v \in Actors \ {p} : loaded'[v] = loaded[v],
         UNCHANGED <<document, results, manifest, paper, bundle, lock, paperLock, call>>,
         /\ Checked(p)' => html'.passed
         /\ Complete(p)' => html'.whole
         /\ pc'[p] = "index" => ~html'.whole
         /\ Shown(p)' => html'.of = TextOf(document)
  PROVE  JobInv'
<1> USE DEF JobInv
<1>1. /\ lock = p /\ loaded[p].document = document /\ Translated(document) = Chunks
      /\ ~ArtifactsCurrent /\ call[p].op = "finalize"
  BY DEF CallInv, ReadIsCurrent, FinalizeProgress, Serialized, Rendering
<1>2. pc'[p] = label /\ label \in Labels \ {"promote", "syncing", "idle"}
  BY DEF TypeOK, Goto, Actors, Labels, Rendering, Returning
<1>3. Full(html.of) => Full(html'.of)
  BY <1>1, TextOfFull DEF TypeOK
<1>4. TextOf(document)' = TextOf(document) /\ Translated(document)' = Translated(document)
      /\ ~ArtifactsCurrent'
  BY <1>1 DEF TextOf, Translated, ArtifactsCurrent
<1>5. CallInv(p)'
  <2>1. FinalizeProgress(p)'
    BY <1>1, <1>2, <1>4 DEF FinalizeProgress, Rendering, Syncing
  <2> QED
    BY <1>1, <1>2, <2>1 DEF CallInv, ReadIsCurrent, SaveProgress, IsSave, Writing, Syncing, Rendering
<1>6. FilesInv'
  <2>1. NoFileAhead'
    BY <1>4 DEF FilesInv, NoFileAhead
  <2>2. PublishedIsTranslated'
    BY <1>3 DEF FilesInv, PublishedIsTranslated, Published, Full
  <2>3. CurrentArtifactsPassed'
    BY <1>4 DEF CurrentArtifactsPassed
  <2>4. (manifest.status \in {"completed", "needs_review"} =>
           Translated(document) = Chunks /\ Full(html.of) /\ Full(bundle.of) /\ bundle.whole)'
    BY <1>3, <1>4 DEF FilesInv, Full
  <2> QED
    BY <2>1, <2>2, <2>3, <2>4 DEF FilesInv
<1>7. PaperSeen'
  BY <1>2, PaperStep
<1> QED
  BY <1>1, <1>2, <1>5, <1>6, <1>7, Alone, ClientStep DEF Rendering

LEMMA RenderInv ==
  ASSUME JobInv, TypeOK', NEW p \in Clients, RenderSteps(p)
  PROVE  JobInv'
<1> USE DEF JobInv, Rendering
<1>1. pc[p] \in Rendering /\ UNCHANGED <<results, manifest, paper, bundle, lock, paperLock, call>>
  BY DEF RenderSteps, WriteStatus, RemoveAssets, WriteIndex, WritePages, WriteQa
<1>2. /\ loaded[p].document = document
      /\ Checked(p) => html.passed
      /\ Complete(p) => html.whole
      /\ Shown(p) => html.of = TextOf(document)
  BY <1>1 DEF CallInv, ReadIsCurrent, FinalizeProgress
<1>3. p \in Actors /\ loaded[p] \in Loads /\ html \in [of : Showing, whole : BOOLEAN, passed : BOOLEAN]
  BY DEF TypeOK, Actors
<1> USE DEF Checked, Complete, Shown, Finishing
<1>4. CASE WriteStatus(p)
  <2> DEFINE label == IF Kind = "html" /\ loaded[p].again THEN "bundle" ELSE "assets"
  <2>1. /\ pc[p] = "status" /\ document' = document /\ Goto(p, label)
        /\ UNCHANGED <<html, loaded>>
    BY <1>2, <1>4 DEF WriteStatus
  <2>2. pc'[p] = label
    BY <1>3, <2>1 DEF TypeOK, Goto
  <2>3. /\ Checked(p)' => html'.passed
        /\ Complete(p)' => html'.whole
        /\ pc'[p] = "index" => ~html'.whole
        /\ Shown(p)' => html'.of = TextOf(document)
    BY <1>2, <2>1, <2>2
  <2> HIDE DEF Checked, Complete, Shown
  <2> QED
    BY <1>1, <2>1, <2>3, RenderStep
<1>5. CASE RemoveAssets(p)
  <2>1. /\ pc[p] = "assets" /\ Goto(p, "index") /\ html' = [html EXCEPT !.whole = FALSE]
        /\ UNCHANGED <<document, loaded>>
    BY <1>5 DEF RemoveAssets
  <2>2. pc'[p] = "index" /\ html'.of = html.of /\ html'.passed = html.passed
        /\ ~html'.whole
    BY <1>3, <2>1 DEF TypeOK, Goto
  <2>3. /\ Checked(p)' => html'.passed
        /\ Complete(p)' => html'.whole
        /\ pc'[p] = "index" => ~html'.whole
        /\ Shown(p)' => html'.of = TextOf(document)
    BY <1>2, <2>1, <2>2
  <2> HIDE DEF Checked, Complete, Shown
  <2> QED
    BY <1>1, <2>1, <2>2, <2>3, RenderStep
<1>6. CASE WriteIndex(p)
  <2> DEFINE label == IF Kind = "html" THEN "qa" ELSE "pages"
  <2>1. /\ pc[p] = "index" /\ Goto(p, label) /\ html' = [html EXCEPT !.of = TextOf(document)]
        /\ UNCHANGED <<document, loaded>>
    BY <1>2, <1>6 DEF WriteIndex
  <2>2. pc'[p] = label /\ html'.of = TextOf(document) /\ html'.passed = html.passed
    BY <1>3, <2>1 DEF TypeOK, Goto
  <2>3. /\ Checked(p)' => html'.passed
        /\ Complete(p)' => html'.whole
        /\ pc'[p] = "index" => ~html'.whole
        /\ Shown(p)' => html'.of = TextOf(document)
    BY <1>2, <2>1, <2>2
  <2> HIDE DEF Checked, Complete, Shown
  <2> QED
    BY <1>1, <2>1, <2>2, <2>3, RenderStep
<1>7. CASE WritePages(p)
  <2> DEFINE label == IF Kind = "html" THEN "status" ELSE IF loaded[p].again THEN "bundle" ELSE "qa"
  <2>1. /\ pc[p] = "pages" /\ Goto(p, label) /\ html' = [html EXCEPT !.whole = TRUE]
        /\ loaded' = [loaded EXCEPT ![p].again = @ \/ Kind = "html"]
        /\ UNCHANGED document
    BY <1>7 DEF WritePages
  <2>2. /\ pc'[p] = label
        /\ html'.of = html.of /\ html'.passed = html.passed /\ html'.whole = TRUE
        /\ loaded'[p].document = loaded[p].document
        /\ \A v \in Actors \ {p} : loaded'[v] = loaded[v]
    BY <1>3, <2>1 DEF TypeOK, Goto, Loads
  <2>3. /\ Checked(p)' => html'.passed
        /\ Complete(p)' => html'.whole
        /\ pc'[p] = "index" => ~html'.whole
        /\ Shown(p)' => html'.of = TextOf(document)
    <3>1. Kind = "pdf" => loaded'[p].again = loaded[p].again
      BY <1>3, <2>1 DEF TypeOK, Loads
    <3> QED
      BY <1>2, <2>1, <2>2, <3>1
  <2> HIDE DEF Checked, Complete, Shown
  <2> QED
    BY <1>1, <2>1, <2>2, <2>3, RenderStep
<1>8. CASE WriteQa(p)
  <2> DEFINE after(passed, empty) == IF ~passed THEN "refused"
                                     ELSE IF Kind = "html" THEN "pages"
                                     ELSE IF empty THEN "status" ELSE "bundle"
  <2> PICK empty \in EmptyPages, passed \in BOOLEAN :
        /\ html' = [html EXCEPT !.passed = passed]
        /\ loaded' = [loaded EXCEPT ![p].again = passed /\ Kind = "pdf" /\ empty]
        /\ Goto(p, after(passed, empty))
    BY <1>8 DEF WriteQa
  <2> DEFINE label == after(passed, empty)
  <2>1. pc[p] = "qa" /\ UNCHANGED document
    BY <1>8 DEF WriteQa
  <2>2. /\ pc'[p] = label
        /\ html'.of = html.of /\ html'.passed = passed /\ html'.whole = html.whole
        /\ loaded'[p].document = loaded[p].document
        /\ loaded'[p].again = (passed /\ Kind = "pdf" /\ empty)
        /\ \A v \in Actors \ {p} : loaded'[v] = loaded[v]
    BY <1>3, <2>1 DEF TypeOK, Goto, Loads
  <2>3. /\ Checked(p)' => html'.passed
        /\ Complete(p)' => html'.whole
        /\ pc'[p] = "index" => ~html'.whole
        /\ Shown(p)' => html'.of = TextOf(document)
    BY <1>2, <2>1, <2>2
  <2> HIDE DEF Checked, Complete, Shown
  <2> QED
    BY <1>1, <2>1, <2>2, <2>3, RenderStep
<1> QED
  BY <1>4, <1>5, <1>6, <1>7, <1>8 DEF RenderSteps

LEMMA CreateBundleInv ==
  ASSUME JobInv, TypeOK', NEW p \in Clients, CreateBundle(p)
  PROVE  JobInv'
<1> USE DEF JobInv
<1>1. /\ pc[p] = "bundle" /\ Goto(p, "publish")
      /\ bundle' = [of |-> html.of, whole |-> html.whole]
      /\ UNCHANGED <<document, results, manifest, paper, html, lock, paperLock, call, loaded>>
  BY DEF CreateBundle
<1>2. /\ lock = p /\ loaded[p].document = document /\ Translated(document) = Chunks
      /\ ~ArtifactsCurrent /\ html.of = TextOf(document) /\ html.passed /\ html.whole = TRUE
      /\ call[p].op = "finalize"
  BY <1>1 DEF CallInv, ReadIsCurrent, FinalizeProgress, Serialized, Checked, Complete, Shown,
              Finishing, TypeOK
<1>3. Full(bundle'.of) /\ bundle'.whole
  BY <1>1, <1>2, TextOfFull DEF TypeOK
<1>4. pc'[p] = "publish"
  BY <1>1 DEF TypeOK, Goto, Actors
<1>5. CallInv(p)'
  <2>1. /\ TextOf(document)' = TextOf(document) /\ Translated(document)' = Translated(document)
        /\ ~ArtifactsCurrent' /\ bundle' = [of |-> html.of, whole |-> TRUE]
    BY <1>1, <1>2 DEF TextOf, Translated, ArtifactsCurrent
  <2>2. FinalizeProgress(p)'
    BY <1>1, <1>2, <1>4, <2>1 DEF FinalizeProgress, Syncing, Rendering, Finishing, Checked, Complete, Shown
  <2> QED
    BY <1>1, <1>2, <1>4, <2>2 DEF CallInv, ReadIsCurrent, SaveProgress, IsSave, Writing, Syncing
<1>6. FilesInv'
  BY <1>1, <1>2, <1>3 DEF FilesInv, NoFileAhead, Translated, PublishedIsTranslated, Published,
                          CurrentArtifactsPassed, ArtifactsCurrent, Full
<1>7. PaperSeen'
  BY <1>1, PaperStep DEF Labels
<1> QED
  BY <1>1, <1>2, <1>5, <1>6, <1>7, Alone, ClientStep DEF Labels

\* The manifest that calls the artifacts current comes after all of them.
LEMMA PublishInv ==
  ASSUME JobInv, TypeOK', NEW p \in Clients, Publish(p)
  PROVE  JobInv'
<1> USE DEF JobInv
<1> DEFINE m == [status |-> FinalStatus(loaded[p]), version |-> "current",
                 completed |-> Translated(loaded[p].document)]
           label == IF Kind = "pdf" THEN "sync" ELSE "finalized"
<1>1. /\ pc[p] = "publish" /\ Goto(p, label) /\ manifest' = m
      /\ loaded' = [loaded EXCEPT ![p].manifest = m]
      /\ UNCHANGED <<document, results, paper, html, bundle, lock, paperLock, call>>
  BY DEF Publish
<1>2. /\ lock = p /\ loaded[p].document = document /\ Translated(document) = Chunks
      /\ html.of = TextOf(document) /\ html.passed /\ html.whole
      /\ bundle = [of |-> html.of, whole |-> TRUE] /\ call[p].op = "finalize"
  BY <1>1 DEF CallInv, ReadIsCurrent, FinalizeProgress, Serialized, Checked, Complete, Shown, Finishing
<1>3. m.status \in Final /\ m.version = "current" /\ m.completed = Translated(document)
  BY <1>2 DEF FinalStatus, Final
<1>4. Full(html.of) /\ Full(bundle.of) /\ bundle.whole
  BY <1>2, TextOfFull DEF TypeOK
<1> HIDE DEF m
<1>5. /\ pc'[p] = label /\ loaded'[p].manifest = m /\ loaded'[p].document = document
      /\ \A v \in Actors \ {p} : loaded'[v] = loaded[v]
  BY <1>1, <1>2 DEF Goto, TypeOK, Loads, Actors
<1>6. ArtifactsCurrent'
  BY <1>1, <1>3 DEF ArtifactsCurrent
<1>7. CallInv(p)'
  BY <1>1, <1>2, <1>5, <1>6
  DEF CallInv, ReadIsCurrent, SaveProgress, FinalizeProgress, IsSave, Writing, Syncing, Rendering,
      Finishing, Checked, Complete, Shown
<1>8. FilesInv'
  <2>1. NoFileAhead'
    BY <1>1, <1>2, <1>3 DEF FilesInv, NoFileAhead, Translated
  <2>2. PublishedIsTranslated'
    BY <1>1, <1>4 DEF PublishedIsTranslated, Full
  <2> QED
    BY <1>1, <1>2, <1>4, <2>1, <2>2 DEF FilesInv, CurrentArtifactsPassed, Full, Translated
<1>9. PaperSeen'
  BY <1>1, <1>5, PaperStep DEF Labels, Returning
<1> QED
  BY <1>1, <1>2, <1>7, <1>8, <1>9, Alone, ClientStep DEF Labels, Returning

\* Whoever leaves its call, by an answer or cut short, gives up only its own flocks.
LEMMA LeavePaper ==
  ASSUME JobInv, NEW p \in Actors, Leave(p), \A v \in Actors \ {p} : pc[v] # "idle" => paper' = paper \/ paperLock # v
  PROVE  PaperSeen'
<1>1. /\ pc'[p] = "idle"
      /\ \A v \in Actors \ {p} : pc'[v] = pc[v] /\ loaded'[v] = loaded[v]
  BY DEF JobInv, TypeOK, Leave, Goto
<1>2. \A v \in Actors \ {p} : paperLock = v => paperLock' = v
  BY DEF Leave
<1> QED
  BY <1>1, <1>2 DEF JobInv, PaperSeen

LEMMA ClientLeaveInv ==
  ASSUME JobInv, TypeOK', NEW p \in Clients, pc[p] # "idle", Leave(p), UNCHANGED files
  PROVE  JobInv'
<1>1. pc'[p] = "idle" /\ Goto(p, "idle")
  BY DEF JobInv, TypeOK, Leave, Goto, Actors
<1>2. CallInv(p)'
  BY <1>1 DEF CallInv, ReadIsCurrent, SaveProgress, FinalizeProgress,
       Checked, Complete, Shown, Rendering, Finishing,
        IsSave, Writing, Syncing
<1>3. PaperSeen'
  BY LeavePaper DEF files, Actors
<1>4. FilesInv'
  BY FilesStep
<1> QED
  BY <1>1, <1>2, <1>3, <1>4, Alone, ClientStep DEF Labels

\* A step of a promoter changes at most the promotion in papertrans-job.json.
LEMMA PromoterStep ==
  ASSUME JobInv, TypeOK', NEW q \in Promoters, NEW label \in {"idle", "promote"}, Goto(q, label),
         UNCHANGED <<document, results, manifest, html, bundle, lock>>,
         \A p \in Clients : call'[p] = call[p] /\ loaded'[p] = loaded[p],
         /\ paper'.status = paper.status /\ paper'.completed = paper.completed
         /\ paper'.provider = paper.provider,
         PaperSeen'
  PROVE  JobInv'
<1> USE DEF JobInv
<1>1. /\ \A p \in Clients : pc'[p] = pc[p]
      /\ \A v \in Promoters : pc'[v] \in {"idle", "promote"}
  BY DEF TypeOK, Goto, Actors, Roles
<1>2. Serialized' /\ Roles'
  BY <1>1 DEF Serialized, Roles
<1>3. ASSUME NEW p \in Clients PROVE CallInv(p)'
  <2>1. ReadIsCurrent(p)'
    BY <1>1 DEF CallInv, ReadIsCurrent, Syncing
  <2>2. SaveProgress(p)'
    BY <1>1 DEF CallInv, SaveProgress, Asked, IsSave, Writing, Syncing, Translated
  <2>3. FinalizeProgress(p)'
    BY <1>1 DEF CallInv, FinalizeProgress, Checked, Complete, Shown, Rendering, Finishing,
        Syncing, Translated, TextOf, ArtifactsCurrent
  <2> QED
    BY <2>1, <2>2, <2>3 DEF CallInv
<1>4. FilesInv'
  BY DEF FilesInv, NoFileAhead, PublishedIsTranslated, CurrentArtifactsPassed,
         ArtifactsCurrent, Published, Translated, Full
<1> QED
  BY <1>2, <1>3, <1>4

LEMMA PromotionInv ==
  ASSUME JobInv, TypeOK', NEW q \in Promoters, Promotion(q)
  PROVE  JobInv'
<1> USE DEF JobInv
<1>1. CASE ReadPromoted(q)
  <2>1. /\ paperLock = NoOne /\ paperLock' = q /\ Goto(q, "promote")
        /\ loaded' = [loaded EXCEPT ![q].paper = paper]
        /\ UNCHANGED <<files, lock, call>>
    BY <1>1 DEF ReadPromoted
  <2>2. pc'[q] = "promote" /\ loaded'[q].paper = paper
    BY <2>1 DEF TypeOK, Goto, Actors, Loads
  <2>3. \A v \in Actors \ {q} : pc'[v] \notin {"syncing", "promote"}
    BY <2>1 DEF PaperSeen, TypeOK, Goto, Actors
  <2>4. PaperSeen'
    BY <2>1, <2>2, <2>3 DEF PaperSeen, files
  <2>5. \A p \in Clients : call'[p] = call[p] /\ loaded'[p] = loaded[p]
    BY <2>1 DEF TypeOK, Actors
  <2> QED
    BY <2>1, <2>4, <2>5, PromoterStep DEF files
<1>2. CASE WritePromoted(q)
  <2>1. /\ pc[q] = "promote" /\ Leave(q) /\ paper' = [loaded[q].paper EXCEPT !.promoted = TRUE]
        /\ UNCHANGED <<document, results, manifest, html, bundle>>
    BY <1>2 DEF WritePromoted
  <2>2. paperLock = q /\ loaded[q].paper = paper
    BY <2>1 DEF PaperSeen, Actors
  <2>3. /\ paper'.status = paper.status /\ paper'.completed = paper.completed
        /\ paper'.provider = paper.provider
    BY <2>1, <2>2 DEF TypeOK, Papers
  <2>4. PaperSeen'
    BY <2>1, <2>2, LeavePaper DEF Actors
  <2>5. lock' = lock /\ Goto(q, "idle")
    BY <2>1 DEF Leave, TypeOK
  <2>6. \A p \in Clients : call'[p] = call[p] /\ loaded'[p] = loaded[p]
    BY <2>1 DEF Leave, TypeOK, Actors
  <2> QED
    BY <2>1, <2>3, <2>4, <2>5, <2>6, PromoterStep
<1> QED
  BY <1>1, <1>2 DEF Promotion

LEMMA AbortInv ==
  ASSUME JobInv, TypeOK', NEW p \in Actors, Abort(p)
  PROVE  JobInv'
<1> USE DEF JobInv
<1>1. pc[p] # "idle" /\ Leave(p) /\ UNCHANGED files
  BY DEF Abort
<1>2. CASE p \in Clients
  BY <1>1, <1>2, ClientLeaveInv
<1>3. CASE p \in Promoters
  <2>1. PaperSeen'
    BY <1>1, LeavePaper DEF files
  <2>2. lock' = lock /\ Goto(p, "idle")
    BY <1>1, <1>3 DEF Leave, TypeOK
  <2>3. \A v \in Clients : call'[v] = call[v] /\ loaded'[v] = loaded[v]
    BY <1>1, <1>3 DEF Leave, TypeOK, Actors
  <2> QED
    BY <1>1, <1>3, <2>1, <2>2, <2>3, PromoterStep DEF files
<1> QED
  BY <1>2, <1>3 DEF Actors

LEMMA UpgradeInv ==
  ASSUME JobInv, TypeOK', Upgrade
  PROVE  JobInv'
<1> USE DEF JobInv
<1>1. /\ \A p \in Actors : pc[p] = "idle"
      /\ manifest.version \in {"older", "current"}
      /\ UNCHANGED <<document, results, paper, html, bundle, lock, paperLock, pc, call, loaded>>
  BY DEF Upgrade
<1>2. /\ manifest'.status = manifest.status /\ manifest'.completed = manifest.completed
      /\ manifest'.version \in Releases
  BY DEF Upgrade, TypeOK, Manifests
<1>3. \A p \in Clients : CallInv(p)'
  BY <1>1 DEF CallInv, ReadIsCurrent, SaveProgress, FinalizeProgress,
       Checked, Complete, Shown, Rendering, Finishing,
        IsSave, Writing, Syncing, Actors
<1>4. Forwards => ~ArtifactsCurrent'
  BY <1>2 DEF Forwards, ArtifactsCurrent
<1>5. FilesInv'
  BY <1>1, <1>2, <1>4 DEF FilesInv, NoFileAhead, PublishedIsTranslated, CurrentArtifactsPassed,
                          Published, Translated, Full
<1> QED
  BY <1>1, <1>3, <1>5 DEF Serialized, PaperSeen, Roles

LEMMA JobStep == JobInv /\ [Next]_vars => JobInv'
<1> SUFFICES ASSUME JobInv, [Next]_vars PROVE JobInv'
  OBVIOUS
<1>1. TypeOK'
  BY TypeStep DEF JobInv
<1>2. CASE UNCHANGED vars
  <2>1. FilesInv'
    BY <1>2, FilesStep DEF vars
  <2>2. Serialized' /\ PaperSeen' /\ Roles'
    BY <1>2 DEF JobInv, Serialized, PaperSeen, Roles, vars, files
  <2>3. ASSUME NEW p \in Clients PROVE CallInv(p)'
    BY <1>2 DEF JobInv, CallInv, ReadIsCurrent, SaveProgress, Asked, FinalizeProgress,
         Checked, Complete, Shown, Rendering, Finishing,
        IsSave, Writing,
                Syncing, Translated, TextOf, ArtifactsCurrent, vars, files
  <2> QED
    BY <1>1, <2>1, <2>2, <2>3 DEF JobInv
<1>3. ASSUME NEW p \in Clients, Continue(p) PROVE JobInv'
  <2>1. CASE Return(p)
    BY <1>1, <2>1, ClientLeaveInv DEF Return, Returning
  <2> QED
    BY <1>1, <1>3, <2>1, WriteDocumentInv, WriteResultInv, WriteManifestInv, ReadPaperInv,
       WritePaperInv, RenderInv, CreateBundleInv, PublishInv
    DEF Continue, SaveSteps, SyncSteps, FinalizeSteps
<1> QED
  BY <1>1, <1>2, <1>3, SaveInv, FinalizeInv, PromotionInv, AbortInv, UpgradeInv DEF Next

LEMMA JobInvariant == Spec => []JobInv
BY JobInit, JobStep, PTL DEF Spec

-------------------------------------------------------------------------------
(* What follows from the invariant.                                             *)

\* Wherever calls end, results and manifests never run ahead of the document.
THEOREM NothingAhead == Spec => []NoFileAhead
<1>1. JobInv => NoFileAhead
  BY DEF JobInv, FilesInv
<1> QED
  BY <1>1, JobInvariant, PTL

\* The Web never offers pages or a ZIP with a chunk that has no text.
THEOREM PublishedTranslated == Spec => []PublishedIsTranslated
<1>1. JobInv => PublishedIsTranslated
  BY DEF JobInv, FilesInv
<1> QED
  BY <1>1, JobInvariant, PTL

\* Pages that finalize would not render again have passed QA, are whole and are in
\* the ZIP, if no release is put back to the one that rendered them.
THEOREM CurrentPassed == Forwards => (Spec => []CurrentArtifactsPassed)
<1> SUFFICES ASSUME Forwards PROVE Spec => []CurrentArtifactsPassed
  OBVIOUS
<1>1. JobInv => CurrentArtifactsPassed
  BY DEF JobInv, FilesInv
<1> QED
  BY <1>1, JobInvariant, PTL

\* A save that answers leaves document, result and manifests in agreement and
\* withdraws the pages, whatever files earlier calls left half written.
THEOREM SavesRepair == Spec => []SaveRepairs
<1>1. JobInv => SaveRepairs
  <2> SUFFICES ASSUME JobInv, NEW p \in Clients, pc[p] = "saved"
               PROVE  LET c == call[p].chunk IN
                      /\ document[c].text = call[p].text
                      /\ results[c] = document[c]
                      /\ manifest.completed = Translated(document)
                      /\ ~Published
                      /\ Kind = "pdf" => paper.status = manifest.status /\ paper.completed = manifest.completed
    BY DEF SaveRepairs
  <2>1. SaveProgress(p)
    BY DEF JobInv, CallInv
  <2> QED
    BY <2>1 DEF SaveProgress, IsSave, Syncing, Published, Final
<1> QED
  BY <1>1, JobInvariant, PTL

\* A finalize that answers leaves a published job.
THEOREM FinalizesPublish == Spec => []FinalizePublishes
<1>1. JobInv => FinalizePublishes
  <2> SUFFICES ASSUME JobInv, NEW p \in Clients, pc[p] = "finalized"
               PROVE  ArtifactsCurrent /\ Published /\ (Kind = "pdf" => paper.status = manifest.status)
    BY DEF FinalizePublishes
  <2>1. FinalizeProgress(p)
    BY DEF JobInv, CallInv
  <2>2. ArtifactsCurrent
    BY <2>1 DEF FinalizeProgress
  <2> QED
    BY <2>1, <2>2 DEF FinalizeProgress, Published, ArtifactsCurrent
<1> QED
  BY <1>1, JobInvariant, PTL

-------------------------------------------------------------------------------
(* Steps: who changes the document, the pages and papertrans-job.json.          *)

LEMMA DocumentStep ==
  ASSUME JobInv, [Next]_vars
  PROVE  document' = document \/ \E p \in Clients : WriteDocument(p)
<1>1. ASSUME NEW p \in Clients, Continue(p), ~WriteDocument(p) PROVE document' = document
  <2>1. CASE RenderSteps(p)
    BY <2>1 DEF JobInv, CallInv, ReadIsCurrent, RenderSteps, WriteStatus, RemoveAssets, WriteIndex,
                WritePages, WriteQa
  <2> QED
    BY <1>1, <2>1 DEF Continue, SaveSteps, SyncSteps, FinalizeSteps, WriteResult, WriteManifest, ReadPaper,
                      WritePaper, CreateBundle, Publish, Return, files
<1>2. ASSUME NEW p \in Clients, Save(p) \/ Finalize(p) PROVE document' = document
  BY ZenonT(40), <1>2
       DEF Save, Finalize, BeginSave, BeginReplay, RefuseSave, BeginFinalizeCurrent, BeginFinalize,
              Enter, files
<1> QED
  BY <1>1, <1>2 DEF Next, Promotion, ReadPromoted, WritePromoted, Abort, Upgrade, vars, files

LEMMA PagesStep ==
  ASSUME [Next]_vars
  PROVE  html' = html \/ \E p \in Clients : RenderSteps(p)
<1>1. ASSUME NEW p \in Clients, Save(p) \/ Finalize(p) PROVE html' = html
  BY ZenonT(40), <1>1
       DEF Save, Finalize, BeginSave, BeginReplay, RefuseSave, BeginFinalizeCurrent, BeginFinalize,
              Enter, files
<1>2. ASSUME NEW p \in Clients, Continue(p), ~RenderSteps(p) PROVE html' = html
  BY <1>2 DEF Continue, SaveSteps, SyncSteps, FinalizeSteps, WriteDocument, WriteResult, WriteManifest,
              ReadPaper, WritePaper, CreateBundle, Publish, Return, files
<1> QED
  BY <1>1, <1>2 DEF Next, Promotion, ReadPromoted, WritePromoted, Abort, Upgrade, vars, files

LEMMA PaperWriters ==
  ASSUME [Next]_vars
  PROVE  \/ paper' = paper
         \/ \E p \in Clients : WritePaper(p)
         \/ \E q \in Promoters : WritePromoted(q)
<1>1. ASSUME NEW p \in Clients, Save(p) \/ Finalize(p) PROVE paper' = paper
  BY ZenonT(40), <1>1
       DEF Save, Finalize, BeginSave, BeginReplay, RefuseSave, BeginFinalizeCurrent, BeginFinalize,
              Enter, files
<1>2. ASSUME NEW p \in Clients, Continue(p), ~WritePaper(p) PROVE paper' = paper
  BY <1>2 DEF Continue, SaveSteps, SyncSteps, FinalizeSteps, WriteDocument, WriteResult, WriteManifest,
              ReadPaper, RenderSteps, WriteStatus, RemoveAssets, WriteIndex, WritePages, WriteQa,
              CreateBundle, Publish, Return, files
<1> QED
  BY <1>1, <1>2 DEF Next, Promotion, ReadPromoted, Abort, Upgrade, vars, files

\* What WriteDocument does to the texts of the chunks.
LEMMA WrittenText ==
  ASSUME JobInv, NEW p \in Clients, WriteDocument(p)
  PROVE  /\ call[p].chunk \in Chunks /\ call[p].text \in Texts
         /\ document[call[p].chunk].text = NoText \/ (call[p].overwrite /\ Overwrites)
         /\ TextOf(document)' = [TextOf(document) EXCEPT ![call[p].chunk] = call[p].text]
<1> USE DEF JobInv
<1>1. pc[p] = "document" /\ document' = loaded[p].document
  BY DEF WriteDocument
<1>2. Asked(p)
  BY <1>1 DEF CallInv, SaveProgress
<1>3. SavedBlock(document[call[p].chunk], call[p].text).text = call[p].text
  BY <1>2, SavedBlockType DEF Asked, TypeOK
<1>4. /\ call[p].chunk \in Chunks /\ document \in [Chunks -> Block]
      /\ document' = [document EXCEPT ![call[p].chunk] = SavedBlock(document[call[p].chunk], call[p].text)]
  BY <1>1, <1>2 DEF Asked, TypeOK
<1>5. TextOf(document)' = [TextOf(document) EXCEPT ![call[p].chunk] = call[p].text]
  <2>1. \A k \in Chunks : document'[k].text = IF k = call[p].chunk THEN call[p].text ELSE document[k].text
    BY <1>3, <1>4
  <2> QED
    BY <1>4, <2>1, Zenon DEF TextOf
<1> QED
  BY <1>2, <1>5 DEF Asked

\* The text of a chunk changes only on a client's request to overwrite it.
THEOREM OverwritesAsked == Spec => OverwriteIsAsked
<1> DEFINE A == \A c \in Chunks : document[c].text \notin {NoText, document'[c].text} =>
                  \E p \in Clients : pc[p] = "document" /\ call[p].chunk = c /\ call[p].overwrite
<1>1. JobInv /\ [Next]_vars => [A]_vars
  <2> SUFFICES ASSUME JobInv, [Next]_vars, NEW c \in Chunks,
                      document[c].text \notin {NoText, document'[c].text}
               PROVE  \E p \in Clients : pc[p] = "document" /\ call[p].chunk = c /\ call[p].overwrite
    BY Zenon
  <2>1. PICK p \in Clients : WriteDocument(p)
    BY DocumentStep
  <2>2. TextOf(document)' = [TextOf(document) EXCEPT ![call[p].chunk] = call[p].text]
    BY <2>1, WrittenText
  <2>3. TextOf(document)[c] # TextOf(document)'[c]
    BY DEF TextOf
  <2>4. call[p].chunk = c
    BY <2>2, <2>3 DEF TextOf
  <2> QED
    BY <2>1, <2>4, WrittenText DEF WriteDocument
<1> QED
  BY <1>1, JobInvariant, PTL DEF Spec, OverwriteIsAsked

\* A promotion outlives every later manifest and puts no old status back.
THEOREM UpdatesKept == Spec => ManifestUpdatesKept
<1> DEFINE A == /\ paper.promoted => paper'.promoted
                /\ paper'.status # paper.status => \E p \in Clients : pc[p] = "syncing"
<1>1. JobInv /\ [Next]_vars => [A]_vars
  <2> SUFFICES ASSUME JobInv, [Next]_vars PROVE A
    BY Zenon
  <2>1. CASE paper' = paper
    BY <2>1
  <2>2. ASSUME NEW p \in Clients, WritePaper(p) PROVE A
    BY <2>2 DEF WritePaper, JobInv, PaperSeen, Actors
  <2>3. ASSUME NEW q \in Promoters, WritePromoted(q) PROVE A
    BY <2>3 DEF WritePromoted, JobInv, PaperSeen, Actors, TypeOK, Papers
  <2> QED
    BY <2>1, <2>2, <2>3, PaperWriters
<1> QED
  BY <1>1, JobInvariant, PTL DEF Spec, ManifestUpdatesKept

\* The job is a record of one text per chunk; its pages are made of a complete
\* record only, and whole pages are a copy of one, never a mixture
\* (TranslationRecord), however calls interleave and wherever they end.
THEOREM Refinement == Spec => ImplementsTranslationRecord
<1>1. Init => Record!Init
  BY DEF Init, Record!Init, Record!Untranslated, TextOf, NoBlock
<1>2. JobInv /\ [Next]_vars => [Record!Next]_(Record!vars)
  <2> SUFFICES ASSUME JobInv, [Next]_vars PROVE [Record!Next]_(Record!vars)
    OBVIOUS
  <2>1. ASSUME NEW p \in Clients, WriteDocument(p) PROVE Record!Next
    <3>1. html' = html
      BY <2>1 DEF WriteDocument
    <3>2. Record!Save(call[p].chunk, call[p].text)
      BY <2>1, <3>1, WrittenText DEF Record!Save, TextOf
    <3> QED
      BY <2>1, <3>2, WrittenText DEF Record!Next
  <2>2. ASSUME NEW p \in Clients, RenderSteps(p) PROVE [Record!Next]_(Record!vars)
    <3>1. pc[p] \in Rendering
      BY <2>2 DEF RenderSteps, WriteStatus, RemoveAssets, WriteIndex, WritePages, WriteQa, Rendering
    <3>2. /\ loaded[p].document = document /\ Translated(document) = Chunks
          /\ pc[p] = "pages" => html.of = TextOf(document)
          /\ pc[p] = "index" => ~html.whole
          /\ html \in [of : Showing, whole : BOOLEAN, passed : BOOLEAN]
      BY <3>1 DEF JobInv, CallInv, ReadIsCurrent, FinalizeProgress, Rendering, Shown, TypeOK
    <3>3. Record!Complete
      <4>1. Full(TextOf(document))
        BY <3>2, TextOfFull DEF JobInv, TypeOK
      <4> QED
        BY <4>1 DEF Record!Complete, Full
    <3>4. CASE WriteStatus(p)
      BY <3>2, <3>4 DEF WriteStatus, Record!vars, TextOf
    <3>5. CASE RemoveAssets(p)
      <4>1. Record!Begin
        BY <3>2, <3>3, <3>5 DEF RemoveAssets, Record!Begin, TextOf
      <4> QED
        BY <4>1 DEF Record!Next
    <3>6. CASE WriteIndex(p)
      <4>1. /\ UNCHANGED document
            /\ html'.of = TextOf(document) /\ html'.whole = html.whole /\ ~html.whole
        BY <3>2, <3>6 DEF WriteIndex
      <4>2. TextOf(document)' = TextOf(document)
        BY <4>1 DEF TextOf
      <4>3. Record!Copy
        BY <3>3, <4>1, <4>2 DEF Record!Copy
      <4> QED
        BY <4>3 DEF Record!Next
    <3>7. CASE WritePages(p)
      <4>1. /\ UNCHANGED document /\ pc[p] = "pages"
            /\ html'.of = html.of /\ html'.whole = TRUE
        BY <3>2, <3>7 DEF WritePages
      <4>2. TextOf(document)' = TextOf(document)
        BY <4>1 DEF TextOf
      <4>3. Record!Finish
        BY <3>2, <3>3, <4>1, <4>2 DEF Record!Finish
      <4> QED
        BY <4>3 DEF Record!Next
    <3>8. CASE WriteQa(p)
      <4>1. UNCHANGED document /\ html'.of = html.of /\ html'.whole = html.whole
        BY <3>2, <3>8 DEF WriteQa
      <4> QED
        BY <4>1 DEF Record!vars, TextOf
    <3> QED
      BY <2>2, <3>4, <3>5, <3>6, <3>7, <3>8 DEF RenderSteps
  <2>3. CASE document' = document /\ html' = html
    BY <2>3 DEF Record!vars, TextOf
  <2> QED
    BY <2>1, <2>2, <2>3, DocumentStep, PagesStep
<1> QED
  BY <1>1, <1>2, JobInvariant, PTL DEF Spec, ImplementsTranslationRecord, Record!Spec

-------------------------------------------------------------------------------
(* Between calls the Web offers what the document holds, unless an overwrite is *)
(* cut short: then the old pages stay published.                                *)

WholeOverwrites == ~(Overwrites /\ Aborts)

Current == html.of = TextOf(document) /\ bundle = [of |-> TextOf(document), whole |-> TRUE]

\* A client has replaced a text and not yet withdrawn the pages.
Replacing(where) == Overwrites /\ \E p \in Clients : IsSave(p, where)

PagesInv ==
  /\ manifest.status \in {"completed", "needs_review"} => Current \/ Replacing(Writing)
  /\ Published => Current \/ Replacing(Writing \cup Syncing)

\* A step that finalizes nothing and finds no client replacing a text.
LEMMA PagesKept ==
  ASSUME PagesInv,
         \A p \in Clients : ~IsSave(p, Writing \cup Syncing),
         manifest'.status \in {"completed", "needs_review"} => manifest.status \in {"completed", "needs_review"},
         Published' => Published,
         Current => Current'
  PROVE  PagesInv'
<1>1. ~Replacing(Writing) /\ ~Replacing(Writing \cup Syncing)
  BY DEF Replacing, IsSave, Writing, Syncing
<1> QED
  BY <1>1 DEF PagesInv

LEMMA FilesKeepPages ==
  ASSUME UNCHANGED <<document, html, bundle, manifest>>, paper'.status = paper.status, paper'.provider = paper.provider
  PROVE  Published' = Published /\ Current' = Current
BY DEF Published, Current, TextOf

\* Only the client in a call may be replacing a text.
LEMMA NotReplacing ==
  ASSUME JobInv, NEW p \in Clients, pc[p] # "idle" \/ lock = NoOne, ~IsSave(p, Writing \cup Syncing)
  PROVE  \A v \in Clients : ~IsSave(v, Writing \cup Syncing)
BY Alone DEF IsSave, Writing, Syncing

LEMMA PagesWriteDocument ==
  ASSUME WholeOverwrites, JobInv, PagesInv, NEW p \in Clients, WriteDocument(p)
  PROVE  PagesInv'
<1>1. /\ pc[p] = "document" /\ Goto(p, "result")
      /\ UNCHANGED <<results, manifest, paper, html, bundle, lock, paperLock, call, loaded>>
  BY DEF WriteDocument
<1>2. pc'[p] = "result"
  BY <1>1 DEF Goto, JobInv, TypeOK, Actors
<1>3. CASE Overwrites
  BY <1>2, <1>3 DEF PagesInv, Replacing, IsSave, Writing, Syncing
<1>4. CASE ~Overwrites
  <2>1. /\ call[p].chunk \in Chunks
        /\ document[call[p].chunk].text = NoText
    BY <1>4, WrittenText
  <2>2. ~Full(TextOf(document)) /\ Translated(document) # Chunks
    BY <2>1 DEF Full, TextOf, Translated
  <2>3. ~Current \/ ~Published
    BY <2>2 DEF JobInv, FilesInv, PublishedIsTranslated, Current, Full
  <2>4. ~Published /\ manifest.status \notin {"completed", "needs_review"}
    BY <1>4, <2>2, <2>3 DEF PagesInv, Replacing, JobInv, FilesInv
  <2> QED
    BY <1>1, <2>4 DEF PagesInv, Published
<1> QED
  BY <1>3, <1>4

LEMMA PagesSave ==
  ASSUME WholeOverwrites, JobInv, PagesInv, NEW p \in Clients, WriteResult(p) \/ WriteManifest(p)
  PROVE  PagesInv'
<1> USE DEF JobInv
<1>1. CASE WriteResult(p)
  <2>1. /\ UNCHANGED <<document, html, bundle, manifest, paper, call>>
        /\ pc[p] = "result" /\ pc'[p] = "manifest" /\ \A v \in Clients \ {p} : pc'[v] = pc[v]
    BY <1>1 DEF WriteResult, Goto, TypeOK, Actors
  <2>2. Published' = Published /\ Current' = Current
    BY <2>1, FilesKeepPages
  <2> QED
    BY <2>1, <2>2 DEF PagesInv, Replacing, IsSave, Writing, Syncing
<1>2. CASE WriteManifest(p)
  <2>1. /\ UNCHANGED <<document, html, bundle, paper, call>> /\ pc[p] = "manifest"
        /\ pc'[p] = IF Kind = "pdf" THEN "sync" ELSE "saved"
    BY <1>2 DEF WriteManifest, Goto, TypeOK, Actors
  <2>2. manifest' = Refreshed(loaded[p].manifest, loaded[p].document)
    BY <1>2 DEF WriteManifest
  <2>3. manifest'.status \notin {"completed", "needs_review"}
    <3>1. loaded[p].manifest \in Manifests /\ loaded[p].document \in [Chunks -> Block]
      BY DEF TypeOK, Loads, Actors
    <3> QED
      BY <2>2, <3>1, RefreshedType
  <2>4. call[p].op = "save"
    BY <2>1 DEF CallInv, SaveProgress, IsSave, Writing, Syncing
  <2>5. Current' = Current
    BY <2>1 DEF Current, TextOf
  <2>6. CASE Kind = "pdf"
    <3>1. Published' = Published
      BY <2>1, <2>6 DEF Published
    <3>2. Overwrites => Replacing(Writing \cup Syncing)'
      BY <2>1, <2>4, <2>6 DEF Replacing, IsSave, Writing, Syncing
    <3> QED
      BY <2>3, <2>5, <3>1, <3>2 DEF PagesInv, Replacing
  <2>7. CASE Kind # "pdf"
    <3>1. ~Published'
      BY <2>3, <2>7 DEF Published, Final
    <3> QED
      BY <2>3, <3>1 DEF PagesInv
  <2> QED
    BY <2>6, <2>7
<1> QED
  BY <1>1, <1>2

LEMMA PagesSync ==
  ASSUME WholeOverwrites, JobInv, PagesInv, NEW p \in Clients, ReadPaper(p) \/ WritePaper(p)
  PROVE  PagesInv'
<1> USE DEF JobInv
<1>1. CASE ReadPaper(p)
  <2>1. /\ UNCHANGED files /\ call' = call
        /\ pc[p] = "sync" /\ pc'[p] = "syncing" /\ \A v \in Clients \ {p} : pc'[v] = pc[v]
    BY <1>1 DEF ReadPaper, Goto, TypeOK, Actors
  <2>2. Published' = Published /\ Current' = Current
    BY <2>1, FilesKeepPages DEF files
  <2> QED
    BY <2>1, <2>2 DEF PagesInv, Replacing, IsSave, Writing, Syncing, files
<1>2. CASE WritePaper(p)
  <2>1. /\ pc[p] = "syncing" /\ UNCHANGED <<document, results, manifest, html, bundle, call>>
        /\ paper'.status = loaded[p].manifest.status
        /\ pc'[p] = IF call[p].op = "save" THEN "saved" ELSE "finalized"
    BY <1>2 DEF WritePaper, Goto, TypeOK, Actors
  <2>2. loaded[p].manifest = manifest /\ Kind = "pdf"
    BY <2>1 DEF CallInv, ReadIsCurrent, Syncing
  <2>3. \A v \in Clients \ {p} : pc[v] = "idle"
    BY <2>1, Alone
  <2>4. ~Replacing(Writing)
    BY <2>1, <2>3 DEF Replacing, IsSave, Writing
  <2>5. manifest.status \in {"completed", "needs_review"} => Current
    BY <2>4 DEF PagesInv
  <2>6. Current' = Current
    BY <2>1 DEF Current, TextOf
  <2>7. Published' => manifest.status \in {"completed", "needs_review"}
    BY <2>1, <2>2 DEF Published, Final
  <2> QED
    BY <2>1, <2>5, <2>6, <2>7 DEF PagesInv
<1> QED
  BY <1>1, <1>2

LEMMA PagesFinalize ==
  ASSUME WholeOverwrites, JobInv, PagesInv, NEW p \in Clients, FinalizeSteps(p)
  PROVE  PagesInv'
<1> USE DEF JobInv
<1>1. pc[p] \in Rendering \cup Finishing
  BY DEF FinalizeSteps, RenderSteps, WriteStatus, RemoveAssets, WriteIndex, WritePages, WriteQa,
         CreateBundle, Publish, Rendering, Finishing
<1>2. \A v \in Clients : ~IsSave(v, Writing \cup Syncing)
  BY <1>1, NotReplacing DEF IsSave, Writing, Syncing, Rendering, Finishing
<1>3. CASE RenderSteps(p)
  <2>1. loaded[p].document = document /\ html \in [of : Showing, whole : BOOLEAN, passed : BOOLEAN]
    BY <1>1 DEF CallInv, ReadIsCurrent, Rendering, Finishing, TypeOK
  <2>2. /\ document' = document /\ html'.of \in {html.of, TextOf(document)}
        /\ UNCHANGED <<manifest, paper, bundle>>
    BY <1>3, <2>1 DEF RenderSteps, WriteStatus, RemoveAssets, WriteIndex, WritePages, WriteQa
  <2>3. (Current => Current') /\ Published' = Published
    BY <2>2 DEF Current, TextOf, Published
  <2> QED
    BY <1>2, <2>2, <2>3, PagesKept
<1>4. CASE CreateBundle(p)
  <2>1. /\ bundle' = [of |-> html.of, whole |-> TRUE]
        /\ UNCHANGED <<document, manifest, paper, html>>
    BY <1>4 DEF CreateBundle, CallInv, FinalizeProgress, Complete, Finishing, TypeOK
  <2>2. (Current => Current') /\ Published' = Published
    BY <2>1 DEF Current, TextOf, Published
  <2> QED
    BY <1>2, <2>1, <2>2, PagesKept
<1>5. CASE Publish(p)
  <2>1. pc[p] = "publish" /\ UNCHANGED <<document, html, bundle>>
    BY <1>5 DEF Publish
  <2>2. Current'
    BY <2>1 DEF CallInv, FinalizeProgress, Current, TextOf, Shown, Complete, Finishing
  <2> QED
    BY <2>2 DEF PagesInv
<1> QED
  BY <1>3, <1>4, <1>5 DEF FinalizeSteps

\* A call that is cut short was not replacing a text.
LEMMA PagesAbort ==
  ASSUME WholeOverwrites, JobInv, PagesInv, NEW p \in Actors, Abort(p)
  PROVE  PagesInv'
<1>1. ~Overwrites /\ UNCHANGED files
  BY DEF Abort, WholeOverwrites
<1>2. Published' = Published /\ Current' = Current
  BY <1>1, FilesKeepPages DEF files
<1> QED
  BY <1>1, <1>2 DEF PagesInv, Replacing, files

LEMMA PagesPromotion ==
  ASSUME JobInv, PagesInv, NEW q \in Promoters, Promotion(q)
  PROVE  PagesInv'
<1> USE DEF JobInv
<1>1. /\ UNCHANGED <<document, html, bundle, manifest>>
      /\ paper'.status = paper.status /\ paper'.provider = paper.provider
  BY DEF Promotion, ReadPromoted, WritePromoted, PaperSeen, Actors, TypeOK, Papers, files
<1>2. \A p \in Clients : pc'[p] = pc[p] /\ call'[p] = call[p]
  BY DEF Promotion, ReadPromoted, WritePromoted, Leave, Goto, TypeOK, Actors
<1>3. Published' = Published /\ Current' = Current
  BY <1>1, FilesKeepPages
<1> QED
  BY <1>1, <1>2, <1>3 DEF PagesInv, Replacing, IsSave

LEMMA PagesUpgrade ==
  ASSUME JobInv, PagesInv, Upgrade
  PROVE  PagesInv'
<1>1. /\ manifest'.status = manifest.status /\ manifest.version \in {"older", "current"}
      /\ UNCHANGED <<document, paper, html, bundle, pc, call>>
  BY DEF Upgrade, JobInv, TypeOK, Manifests
<1>2. (Published' => Published) /\ Current' = Current
  BY <1>1 DEF Published, Current, TextOf
<1>3. \A p \in Clients : ~IsSave(p, Writing \cup Syncing)
  BY DEF Upgrade, IsSave, Writing, Syncing, Actors
<1> QED
  BY <1>1, <1>2, <1>3, PagesKept

LEMMA PagesInvStep == WholeOverwrites /\ JobInv /\ PagesInv /\ [Next]_vars => PagesInv'
<1> SUFFICES ASSUME WholeOverwrites, JobInv, PagesInv, [Next]_vars PROVE PagesInv'
  OBVIOUS
<1>1. CASE UNCHANGED vars
  <2>1. Published' = Published /\ Current' = Current
    BY <1>1, FilesKeepPages DEF vars, files
  <2> QED
    BY <1>1, <2>1 DEF PagesInv, Replacing, IsSave, vars, files
<1>2. ASSUME NEW p \in Clients, Save(p) \/ Finalize(p) PROVE PagesInv'
  <2>1. lock = NoOne /\ pc[p] = "idle" /\ UNCHANGED files
    BY <1>2 DEF Save, Finalize, BeginSave, BeginReplay, RefuseSave, BeginFinalizeCurrent, BeginFinalize, Enter
  <2>2. \A v \in Clients : ~IsSave(v, Writing \cup Syncing)
    BY <2>1, NotReplacing DEF IsSave, Writing, Syncing
  <2>3. Published' = Published /\ Current' = Current
    BY <2>1, FilesKeepPages DEF files
  <2> QED
    BY <2>1, <2>2, <2>3, PagesKept DEF files
<1>3. ASSUME NEW p \in Clients, Return(p) PROVE PagesInv'
  <2>1. pc[p] \in Returning /\ UNCHANGED files
    BY <1>3 DEF Return
  <2>2. \A v \in Clients : ~IsSave(v, Writing \cup Syncing)
    BY <2>1, NotReplacing DEF IsSave, Writing, Syncing, Returning
  <2>3. Published' = Published /\ Current' = Current
    BY <2>1, FilesKeepPages DEF files
  <2> QED
    BY <2>1, <2>2, <2>3, PagesKept DEF files
<1>4. ASSUME NEW p \in Clients, Continue(p) PROVE PagesInv'
  BY <1>3, <1>4, PagesWriteDocument, PagesSave, PagesSync, PagesFinalize
  DEF Continue, SaveSteps, SyncSteps
<1> QED
  BY <1>1, <1>2, <1>4, PagesPromotion, PagesAbort, PagesUpgrade DEF Next

\* Between calls the Web offers what the document holds, unless clients overwrite
\* translations and calls may be cut short, or a release is put back.  Pages torn by
\* a rendering that was cut short may be offered too, but are not called current.
THEOREM PublishedCurrent == WholeOverwrites /\ Forwards => (Spec => []PublishedIsCurrent)
<1> SUFFICES ASSUME WholeOverwrites, Forwards PROVE Spec => []PublishedIsCurrent
  OBVIOUS
<1>1. Init => PagesInv
  BY DEF Init, PagesInv, Published, Final, PreparedPaper, NoManifest
<1>2. JobInv /\ PagesInv => PublishedIsCurrent
  <2>0. JobInv => (ArtifactsCurrent => html.whole)
    BY DEF JobInv, FilesInv, CurrentArtifactsPassed
  <2> SUFFICES ASSUME JobInv, PagesInv, lock = NoOne, Published PROVE Current
    BY <2>0 DEF PublishedIsCurrent, Current
  <2>1. \A p \in Clients : pc[p] = "idle"
    BY DEF JobInv, Serialized
  <2> QED
    BY <2>1 DEF PagesInv, Replacing, IsSave, Writing, Syncing
<1> QED
  BY <1>1, <1>2, JobInvariant, PagesInvStep, PTL DEF Spec

-------------------------------------------------------------------------------
(* How the directory of a job comes to be: PrepareJob for any number of calls   *)
(* and papers, whatever other software does, whichever calls fail or are        *)
(* killed.                                                                      *)

USE NobodyAssumption, CallerAssumption

Locked == {"look", "acquire", "recheck", "rmdir", "replace", "clean"}
Turned == {"refused", "failed"}

\* The call has a reason to be turned away.
Barred(c) == root = "foreign" \/ (IsJob /\ PaperOf[root] # PaperOf[c])

\* A call past its first line holds the flock, so there is one at a time.
FlockHeld == \A c \in Callers : point[c] \in Locked => flock = c

\* While a call builds, nobody else can publish: what appears at the path is
\* foreign.  A call about to publish has a whole staging directory.
BuildingAlone ==
  \A c \in Callers :
    /\ point[c] \in {"acquire", "recheck", "rmdir", "replace"} => ~IsJob
    /\ point[c] \in {"recheck", "rmdir", "replace"} => staging[c] = "whole"
    /\ point[c] \in {"idle", "look"} => staging[c] = "none"

\* The job that is there came whole from a call that has answered or is about to.
JobIsWhole ==
  \A c \in Callers : root = c =>
    /\ staging[c] = "whole"
    /\ point[c] \in {"answered", "dead"} \/ (point[c] = "clean" /\ result[c] = "answered")

\* How a call ends is justified from the moment that is decided.
VerdictJustified ==
  \A c \in Callers :
    /\ point[c] = "clean" => result[c] \in Ended \ {"dead"}
    /\ point[c] = "answered" \/ (point[c] = "clean" /\ result[c] = "answered") =>
         IsJob /\ PaperOf[root] = PaperOf[c]
    /\ point[c] \in Turned \/ (point[c] = "clean" /\ result[c] \in Turned) => Barred(c)

JobDirectoryInv ==
  PrepareTypeOK /\ FlockHeld /\ BuildingAlone /\ JobIsWhole /\ VerdictJustified /\ StagingRemoved

LEMMA DirectoryInit == PrepareInit => JobDirectoryInv
BY DEF PrepareInit, JobDirectoryInv, PrepareTypeOK, FlockHeld, BuildingAlone, JobIsWhole, VerdictJustified,
       StagingRemoved, IsJob, Locked, Turned, Ended

LEMMA DirectoryEnter ==
  ASSUME JobDirectoryInv, NEW c \in Callers,
         EnterPrepare(c) \/ FindJob(c) \/ FindForeign(c) \/ MakeStaging(c)
  PROVE  JobDirectoryInv'
<1> USE DEF JobDirectoryInv, PrepareTypeOK, FlockHeld, BuildingAlone, JobIsWhole, VerdictJustified,
            StagingRemoved, IsJob, Locked, Turned, Ended, GoTo, Finish, Barred, Occupied
<1>1. CASE EnterPrepare(c)
  BY <1>1 DEF EnterPrepare
<1>2. CASE FindJob(c)
  BY <1>2 DEF FindJob
<1>3. CASE FindForeign(c)
  BY <1>3 DEF FindForeign
<1>4. CASE MakeStaging(c)
  BY <1>4 DEF MakeStaging
<1> QED
  BY <1>1, <1>2, <1>3, <1>4

LEMMA DirectoryBuild ==
  ASSUME JobDirectoryInv, NEW c \in Callers,
         Acquire(c) \/ AcquireFails(c) \/ Recheck(c) \/ RemoveEmpty(c) \/ Replace(c)
  PROVE  JobDirectoryInv'
<1> USE DEF JobDirectoryInv, PrepareTypeOK, FlockHeld, BuildingAlone, JobIsWhole, VerdictJustified,
            StagingRemoved, IsJob, Locked, Turned, Ended, GoTo, Finish, Barred, Occupied
<1>1. CASE Acquire(c)
  BY <1>1 DEF Acquire
<1>2. CASE AcquireFails(c)
  BY <1>2 DEF AcquireFails
<1>3. CASE Recheck(c)
  BY <1>3 DEF Recheck
<1>4. CASE RemoveEmpty(c)
  BY <1>4 DEF RemoveEmpty
<1>5. CASE Replace(c)
  BY <1>5 DEF Replace
<1> QED
  BY <1>1, <1>2, <1>3, <1>4, <1>5

LEMMA DirectoryLeave ==
  ASSUME JobDirectoryInv, NEW c \in Callers, Clean(c) \/ Crash(c)
  PROVE  JobDirectoryInv'
<1> USE DEF JobDirectoryInv, PrepareTypeOK, FlockHeld, BuildingAlone, JobIsWhole, VerdictJustified,
            StagingRemoved, IsJob, Locked, Turned, Ended, GoTo, Barred
<1>1. CASE Clean(c)
  BY <1>1 DEF Clean
<1>2. CASE Crash(c)
  BY <1>2 DEF Crash
<1> QED
  BY <1>1, <1>2

LEMMA DirectoryForeign == JobDirectoryInv /\ UseDirectory => JobDirectoryInv'
BY DEF UseDirectory, JobDirectoryInv, PrepareTypeOK, FlockHeld, BuildingAlone, JobIsWhole,
   VerdictJustified,
       StagingRemoved, IsJob, Locked, Turned, Ended, Barred, Occupied

LEMMA DirectoryStep == JobDirectoryInv /\ [PrepareNext]_prepareVars => JobDirectoryInv'
<1> SUFFICES ASSUME JobDirectoryInv, [PrepareNext]_prepareVars PROVE JobDirectoryInv'
  OBVIOUS
<1>1. ASSUME NEW c \in Callers, Prepare(c)
      PROVE  JobDirectoryInv'
  BY <1>1, DirectoryEnter, DirectoryBuild, DirectoryLeave DEF Prepare
<1>2. ASSUME NEW c \in Callers, Crash(c)
      PROVE  JobDirectoryInv'
  BY <1>2, DirectoryLeave
<1>3. CASE UNCHANGED prepareVars
  BY <1>3 DEF prepareVars, JobDirectoryInv, PrepareTypeOK, FlockHeld, BuildingAlone, JobIsWhole, VerdictJustified,
              StagingRemoved, IsJob, Barred
<1> QED
  BY <1>1, <1>2, <1>3, DirectoryForeign DEF PrepareNext

LEMMA DirectoryInvariance == PrepareSpec => []JobDirectoryInv
BY DirectoryInit, DirectoryStep, PTL DEF PrepareSpec

-------------------------------------------------------------------------------
\* Every variable has its type.
THEOREM PrepareTypes == PrepareSpec => []PrepareTypeOK
<1>1. JobDirectoryInv => PrepareTypeOK
  BY DEF JobDirectoryInv
<1> QED
  BY <1>1, DirectoryInvariance, PTL

\* prepare turns a call away only for foreign data or another paper's job: calls
\* for one paper do not make each other fail, whichever of them are killed.
THEOREM PreparesShared == PrepareSpec => []PrepareIsShared
<1>1. JobDirectoryInv => PrepareIsShared
  BY DEF JobDirectoryInv, VerdictJustified, PrepareIsShared, Barred, Turned
<1> QED
  BY <1>1, DirectoryInvariance, PTL

\* A job at the path is whole, and an answer is about the paper asked for.
THEOREM AnswersPrepared == PrepareSpec => []AnsweredIsPrepared
<1>1. JobDirectoryInv => AnsweredIsPrepared
  BY DEF JobDirectoryInv, JobIsWhole, VerdictJustified, AnsweredIsPrepared
<1> QED
  BY <1>1, DirectoryInvariance, PTL

\* A call that ends by itself leaves no staging directory.
THEOREM StagingsRemoved == PrepareSpec => []StagingRemoved
<1>1. JobDirectoryInv => StagingRemoved
  BY DEF JobDirectoryInv
<1> QED
  BY <1>1, DirectoryInvariance, PTL

\* No step of prepare, at whatever moment data appears at the path, deletes or
\* replaces a directory with data in it.
THEOREM DataIsKept == PrepareSpec => DataKept
<1>1. [PrepareNext]_prepareVars => (Occupied => root' = root)
  BY DEF PrepareNext, prepareVars, Prepare, EnterPrepare, FindJob, FindForeign, MakeStaging, Acquire, AcquireFails,
     Recheck,
         RemoveEmpty, Replace, Clean, Crash, UseDirectory, GoTo, Finish
<1> QED
  BY <1>1, PTL DEF PrepareSpec, DataKept
=============================================================================
