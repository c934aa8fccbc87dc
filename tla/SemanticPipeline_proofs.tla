------------------------ MODULE SemanticPipeline_proofs ------------------------
(* SemanticPipeline for any units, texts, PDFs, readings, retries and runs.     *)
EXTENDS SemanticPipeline, FiniteSetTheorems, TLAPS

-------------------------------------------------------------------------------
(* The conversion: what it holds at each step of the call, and that a pipeline *)
(* which is not converting holds none of it.                                   *)

Waiting == {"waiting", "joining", "terminating"}
ConversionInv ==
  /\ failure \in {"none", "timeout", "limit", "error"}
  /\ answer = "document" => call = "over" /\ worker = "ok" /\ failure = "none"
  /\ worker = "running" => call \in Waiting
  /\ helper = "alive" => call \in Waiting \cup {"reading"}
  /\ call = "idle" => ~ limits
  /\ pc # "extract" \/ settings.parser # "docling" => call = "idle"
  /\ pc = "extract" /\ call \in {"idle", "bounded", "over"} => output = "none"

-------------------------------------------------------------------------------
(* The document: what is on disk is in memory from the build on, and a unit     *)
(* without Japanese is in a chunk that is still to be applied.                  *)

Shaped(d) ==
  /\ DOMAIN d = {"text", "ja", "doubtful", "status", "of", "structureOf"}
  /\ d.text \in [Units -> Texts] /\ d.ja \in [Units -> SUBSET Texts]
Matches(d) == \A u \in Units : d.ja[u] \subseteq {d.text[u]}
WithDoc == {"announce", "begin", "progress", "pool", "drain", "html", "index", "check", "bundle", "finish"}
Rendering == {"html", "index", "check", "bundle", "finish"}
Uncovered(d) ==
  {u \in Units : d.ja[u] = {} /\ \A i \in DOMAIN tasks : u \in chunks[i] => tasks[i].state = "applied"}
DocumentInv ==
  /\ settings \in Arguments /\ source \in Sources
  /\ \E d : disk \subseteq {d}
  /\ \A d \in disk \ {Torn} : Shaped(d) /\ Matches(d)
  /\ pc \in WithDoc => disk = doc /\ \E d : doc = {d} /\ d # Torn
PoolInv ==
  /\ pc \in Pool => /\ Uncovered(TheDoc) = {}
                    /\ \A i \in DOMAIN tasks : chunks[i] \subseteq Units
                    /\ TheDoc.status # "translating" => pc = "progress" /\ Translated(TheDoc) = Units
  /\ pc \in Rendering /\ settings.mode = "translate" => Translated(TheDoc) = Units

-------------------------------------------------------------------------------
(* The pictures and the files of html/: which of them are this run's at each     *)
(* step.                                                                        *)

Drawn == WithDoc \cup {"build"}
FilesInv ==
  /\ DOMAIN html = {"assets", "index", "qa"}
  /\ pc \in Drawn => \A p \in shown : p \in Pictures /\ assets[p] = run
  /\ pc \in {"index", "check", "bundle", "finish"} => \A p \in shown : html.assets[p] = run
  /\ pc \in {"check", "bundle", "finish"} => html.index = Index(run, shown)
  /\ pc \in {"bundle", "finish"} => \E verdict : html.qa = Page(run, verdict)
  /\ pc = "finish" => bundle = html
  /\ manifest.status \in Published => pc = "ended"
  /\ PublishedStatusIsEarned


-------------------------------------------------------------------------------
LEMMA ConversionStep ==
  ASSUME ConversionInv, Converting, call # "over", DoclingStep, UNCHANGED <<pc, settings>>
  PROVE  ConversionInv'
<1> USE DEF ConversionInv, Converting, Waiting, attemptVars
<1>1. CASE BoundProcess \/ RejectSource \/ StartAttempt \/ AttemptFails
  BY <1>1 DEF BoundProcess, RejectSource, StartAttempt, AttemptFails
<1>2. CASE WaitEnds \/ Join \/ Terminate \/ ReadToEnd
  BY <1>2 DEF WaitEnds, Join, Terminate, ReadToEnd
<1>3. CASE Retry \/ Decide
  BY <1>3 DEF Retry, Decide, Verdict
<1>4. CASE SpawnHelper \/ HelperEnds \/ Export \/ \E code \in ExitCodes : WorkerEnds(code)
  <2>1. ASSUME NEW code \in ExitCodes, WorkerEnds(code) PROVE ConversionInv'
    <3>1. code # "running"
      BY DEF ExitCodes
    <3> QED
      BY <2>1, <3>1 DEF WorkerEnds
  <2> QED
    BY <1>4, <2>1 DEF SpawnHelper, HelperEnds, Export
<1>5. CASE MonitorRound \/ MonitorJudges \/ MonitorEnds \/ Expire
  BY <1>5 DEF MonitorRound, MonitorJudges, MonitorEnds, Expire
<1> QED
  BY <1>1, <1>2, <1>3, <1>4, <1>5 DEF DoclingStep, DoclingCall, DoclingSurroundings

LEMMA ConversionForgotten ==
  ASSUME ConversionInv, ForgetCall, call \in {"idle", "over"},
         pc' # "extract" \/ output' = "none"
  PROVE  ConversionInv'
BY DEF ConversionInv, Waiting, ForgetCall, ForgetLocals

LEMMA ConversionInvStep ==
  ASSUME ConversionInv, [Next]_vars
  PROVE  ConversionInv'
<1>2. CASE Convert(DoclingCall) \/ Convert(DoclingSurroundings)
  BY <1>2, ConversionStep DEF Convert, DoclingStep, pipelineVars
<1>3. CASE \E s \in Sources, arguments \in Arguments : Begin(s, arguments)
  <2>1. call = "idle" /\ ForgetCall /\ output' = "none"
    BY <1>3 DEF Begin, ConversionInv
  <2> QED
    BY <2>1, ConversionForgotten
<1>4. CASE Structured
  <2>1. call = "over" /\ ForgetCall /\ pc' = "build"
    BY <1>4 DEF Structured, ConversionInv
  <2> QED
    BY <2>1, ConversionForgotten
<1>5. CASE Raise
  <2>1. call \in {"idle", "over"} /\ ForgetCall /\ pc' = "ended"
    BY <1>5 DEF Raise, ConversionInv, Working, Pool
  <2> QED
    BY <2>1, ConversionForgotten
<1>6. CASE Kill
  <2>1. worker' = "none" /\ helper' = "none" /\ ForgetLocals /\ pc' = "ended"
    BY <1>6 DEF Kill
  <2> QED
    BY <2>1 DEF ForgetLocals, ConversionInv, Waiting
<1>7. ASSUME UNCHANGED doclingVars, UNCHANGED settings,
             pc' = "extract" => pc = "extract", pc = "extract" /\ pc' # "extract" => settings.parser # "docling"
      PROVE  ConversionInv'
  BY <1>7 DEF ConversionInv, doclingVars
<1>8. CASE LayoutEvidence \/ Review \/ ReuseBatch \/ AskForStructure \/ SplitBatch \/ AnalyzedAll \/ Crops \/ Build \/ Announce
  BY <1>7, <1>8 DEF LayoutEvidence, Review, ReuseBatch, AskForStructure, SplitBatch, Analyze,
     AnalyzedAll, Crops, Build,
                    Announce, Step, processVars
<1>9. CASE BeginTranslation \/ Progress \/ (\E i \in DOMAIN tasks, doubt \in BOOLEAN : Apply(i, doubt)) \/ Abandon \/ Conclude
  BY <1>7, <1>9 DEF BeginTranslation, Progress, Apply, Abandon, Conclude, Step, processVars
<1>10. CASE RenderAssets \/ RenderIndex \/ (\E verdict \in {"passed", "failed"} : WriteQa(verdict)) \/ CreateBundle \/ Finish
  BY <1>7, <1>10 DEF RenderAssets, RenderIndex, WriteQa, CreateBundle, Finish, Step, processVars
<1>11. CASE (\E i \in DOMAIN tasks : Thread(i)) \/ RecordPdf \/ UNCHANGED vars
  BY <1>7, <1>11 DEF Thread, Fetch, AcceptAnswer, RejectAnswer, Task, RecordPdf, processVars, vars,
     pipelineVars
<1> QED
  BY <1>2, <1>3, <1>4, <1>5, <1>6, <1>8, <1>9, <1>10, <1>11 DEF Next, Main

-------------------------------------------------------------------------------
\* Merge takes over a translation under the same id, or under the only equal
\* original, and nothing that was made for another original.
LEMMA Merged ==
  ASSUME NEW p, Shaped(p), Matches(p), NEW d, Shaped(d)
  PROVE  /\ Shaped(Merge(p, d)) /\ Matches(Merge(p, d)) /\ Merge(p, d).text = d.text
         /\ \A u, v \in Units :
              /\ p.text[u] = d.text[v]
              /\ u = v \/ \A w \in Units : p.text[w] = p.text[u] => w = u
              => Merge(p, d).ja[v] = p.ja[u]
<1> DEFINE m == Merge(p, d)  ja == [u \in Units |-> MergedJa(p, d, u)]
<1>1. DOMAIN m = DOMAIN d /\ m.text = d.text /\ m.ja = ja
  BY DEF Merge, Shaped
<1>2. \A u \in Units : Old(p, d, u) \subseteq {v \in Units : p.text[v] = d.text[u]}
  BY DEF Old
<1>3. \A u \in Units : ja[u] = UNION {p.ja[v] : v \in Old(p, d, u)}
  BY DEF MergedJa
<1>4. \A u \in Units : \A v \in Old(p, d, u) : p.ja[v] \subseteq Texts /\ p.ja[v] \subseteq {d.text[u]}
  BY <1>2 DEF Shaped, Matches
<1>5. \A u \in Units : ja[u] \subseteq Texts /\ ja[u] \subseteq {d.text[u]}
  BY <1>3, <1>4
<1>6. ja \in [Units -> SUBSET Texts]
  BY <1>5
<1>7. ASSUME NEW u \in Units, NEW v \in Units, p.text[u] = d.text[v],
             u = v \/ \A w \in Units : p.text[w] = p.text[u] => w = u
      PROVE  ja[v] = p.ja[u]
  <2>1. Old(p, d, v) = {u}
    <3>1. CASE p.text[v] = d.text[v]
      BY <1>7, <3>1 DEF Old
    <3>2. CASE p.text[v] # d.text[v]
      <4>1. {w \in Units : p.text[w] = d.text[v]} = {u}
        BY <1>7, <3>2
      <4> QED
        BY <3>2, <4>1, FS_Singleton DEF Old
    <3> QED
      BY <3>1, <3>2
  <2> QED
    BY SMTT(40), <1>3, <2>1
<1> HIDE DEF ja
<1> QED
  BY <1>1, <1>5, <1>6, <1>7 DEF Shaped, Matches

\* What a step may do to the document: nothing, tear it, forget it, or one of these four.
LEMMA DocumentSteps ==
  ASSUME [Next]_vars
  PROVE  \/ Build \/ BeginTranslation \/ Conclude \/ \E i \in DOMAIN tasks, doubt \in BOOLEAN : Apply(i, doubt)
         \/ disk' \in {disk, {Torn}} /\ pc' \notin WithDoc /\ <<settings, source>>' \in {<<settings, source>>} \cup (Arguments \X Sources)
         \/ UNCHANGED <<disk, doc, settings, source>> /\ pc \in WithDoc
<1> USE DEF WithDoc
<1>1. CASE Convert(DoclingCall) \/ Convert(DoclingSurroundings)
  BY <1>1 DEF Convert, Converting, pipelineVars, processVars, textVars
<1>2. CASE (\E s \in Sources, arguments \in Arguments : Begin(s, arguments)) \/ Structured \/ LayoutEvidence \/ Review
  BY <1>2 DEF Begin, Structured, LayoutEvidence, Review, Step, processVars, textVars
<1>3. CASE ReuseBatch \/ AskForStructure \/ SplitBatch \/ AnalyzedAll \/ Crops
  BY <1>3 DEF ReuseBatch, AskForStructure, SplitBatch, Analyze, AnalyzedAll, Crops, Step,
     processVars, textVars
<1>4. CASE Announce \/ Progress \/ Abandon \/ RenderAssets \/ RenderIndex \/ (\E verdict \in {"passed", "failed"} : WriteQa(verdict)) \/ CreateBundle
  BY <1>4 DEF Announce, Progress, Abandon, RenderAssets, RenderIndex, WriteQa, CreateBundle, Step,
     processVars, textVars
<1>5. CASE Finish \/ Raise \/ Kill
  BY <1>5 DEF Finish, Raise, Kill, CutShort, Step, processVars
<1>6. CASE \E i \in DOMAIN tasks : Thread(i)
  BY <1>6 DEF Thread, Fetch, AcceptAnswer, RejectAnswer, Task, Pool, processVars, textVars
<1>7. CASE RecordPdf \/ UNCHANGED vars
  BY <1>7 DEF RecordPdf, processVars, textVars, vars, pipelineVars
<1> QED
  BY <1>1, <1>2, <1>3, <1>4, <1>5, <1>6, <1>7 DEF Next, Main

\* The document of a translation, with the status, or the Japanese of a chunk, put in.
LEMMA Saved ==
  ASSUME DocumentInv, pc \in WithDoc
  PROVE  \E d : /\ doc = {d} /\ disk = {d} /\ TheDoc = d /\ d # Torn /\ Shaped(d) /\ Matches(d)
BY DEF DocumentInv, TheDoc

LEMMA DocumentInvStep ==
  ASSUME DocumentInv, [Next]_vars
  PROVE  DocumentInv'
<1>0. \A d : Shaped(d) => d # Torn
  BY DEF Shaped, Torn
<1>1. ASSUME NEW d, Shaped(d), Matches(d), doc' = {d}, disk' = {d}, UNCHANGED <<settings, source>>
      PROVE  DocumentInv'
  BY <1>0, <1>1 DEF DocumentInv, Shaped, Matches
<1>2. CASE Build
  <2>1. PICK text \in Readings[source], doubt \in BOOLEAN :
          LET built == [text |-> text, ja |-> [u \in Units |-> {}], doubtful |-> doubt, status |-> "structured",
                        of |-> source, structureOf |-> made]
          IN doc' = IF disk = {} THEN {built} ELSE {Merge(d, built) : d \in disk}
    BY <1>2 DEF Build
  <2> DEFINE built == [text |-> text, ja |-> [u \in Units |-> {}], doubtful |-> doubt, status |-> "structured",
                       of |-> source, structureOf |-> made]
  <2>2. doc' = (IF disk = {} THEN {built} ELSE {Merge(d, built) : d \in disk}) /\ disk' = doc' /\ UNCHANGED <<settings, source>>
    BY <1>2, <2>1 DEF Build, processVars
  <2>3. Shaped(built) /\ Matches(built)
    <3>1. text \in [Units -> Texts]
      BY ReadingsAreDocuments DEF DocumentInv
    <3> QED
      BY <3>1 DEF Shaped, Matches
  <2> HIDE DEF built
  <2>4. CASE disk = {}
    BY <1>1, <2>2, <2>3, <2>4
  <2>5. CASE disk # {}
    <3>1. PICK d : disk = {d} /\ d # Torn
      BY <1>2, <2>5 DEF Build, DocumentInv
    <3>2. Shaped(d) /\ Matches(d)
      BY <3>1 DEF DocumentInv
    <3>3. doc' = {Merge(d, built)}
      BY <2>2, <3>1
    <3>4. Shaped(Merge(d, built)) /\ Matches(Merge(d, built))
      BY <2>3, <3>2, Merged
    <3> QED
      BY <1>1, <2>2, <3>3, <3>4
  <2> QED
    BY <2>4, <2>5
<1>3. CASE BeginTranslation \/ Conclude
  <2>1. PICK d : doc = {d} /\ disk = {d} /\ TheDoc = d /\ d # Torn /\ Shaped(d) /\ Matches(d)
    BY <1>3, Saved DEF BeginTranslation, Conclude, Step, WithDoc
  <2>2. \E status : doc' = {[d EXCEPT !.status = status]} /\ disk' = doc' /\ UNCHANGED <<settings, source>>
    BY <1>3, <2>1 DEF BeginTranslation, Conclude, SaveDoc, processVars
  <2>3. \A status : Shaped([d EXCEPT !.status = status]) /\ Matches([d EXCEPT !.status = status])
    BY <2>1 DEF Shaped, Matches
  <2> QED
    BY <1>1, <2>2, <2>3
<1>4. ASSUME NEW i \in DOMAIN tasks, NEW doubt \in BOOLEAN, Apply(i, doubt) PROVE DocumentInv'
  <2>1. PICK d : doc = {d} /\ disk = {d} /\ TheDoc = d /\ d # Torn /\ Shaped(d) /\ Matches(d)
    BY <1>4, Saved DEF Apply, Step, WithDoc
  <2> DEFINE ja == [u \in Units |-> IF u \in chunks[i] THEN {d.text[u]} ELSE d.ja[u]]
             new == [d EXCEPT !.ja = ja, !.doubtful = @ \/ doubt]
  <2>2. doc' = {new} /\ disk' = {new} /\ UNCHANGED <<settings, source>>
    BY <1>4, <2>1 DEF Apply, SaveDoc, processVars, Shaped
  <2>3. DOMAIN new = DOMAIN d /\ new.text = d.text /\ new.ja = ja
    BY <2>1 DEF Shaped
  <2>4. \A u \in Units : ja[u] \subseteq {d.text[u]} /\ ja[u] \subseteq Texts
    BY <2>1 DEF Shaped, Matches
  <2>5. ja \in [Units -> SUBSET Texts]
    BY <2>4
  <2> HIDE DEF ja, new
  <2>6. Shaped(new) /\ Matches(new)
    BY <2>1, <2>3, <2>4, <2>5 DEF Shaped, Matches
  <2> QED
    BY <1>1, <2>2, <2>6
<1>5. CASE disk' \in {disk, {Torn}} /\ pc' \notin WithDoc /\ <<settings, source>>' \in {<<settings, source>>} \cup (Arguments \X Sources)
  BY <1>5 DEF DocumentInv, Shaped, Matches
<1>6. CASE UNCHANGED <<disk, doc, settings, source>> /\ pc \in WithDoc
  BY <1>6 DEF DocumentInv, Shaped, Matches
<1> QED
  BY <1>2, <1>3, <1>4, <1>5, <1>6, DocumentSteps

Keeps(old, new) ==
  \A u, v \in Units :
    /\ old.ja[u] # {} /\ old.text[u] = new.text[v]
    /\ u = v \/ \A w \in Units : (old.text[w] = old.text[u] => w = u) /\ (new.text[w] = new.text[v] => w = v)
    => new.ja[v] = old.ja[u]

LEMMA SameTextKeeps ==
  ASSUME NEW old, NEW new, new.text = old.text, \A u \in Units : old.ja[u] # {} => new.ja[u] = old.ja[u]
  PROVE  Keeps(old, new)
BY DEF Keeps

LEMMA KeptStep ==
  ASSUME DocumentInv, [Next]_vars, NEW old \in disk \ {Torn}, NEW new \in disk' \ {Torn}
  PROVE  Keeps(old, new)
<1>0. Shaped(old) /\ Matches(old) /\ disk = {old}
  BY DEF DocumentInv
<1>1. CASE Build
  <2>1. PICK text \in Readings[source], doubt \in BOOLEAN :
          LET built == [text |-> text, ja |-> [u \in Units |-> {}], doubtful |-> doubt, status |-> "structured",
                        of |-> source, structureOf |-> made]
          IN doc' = IF disk = {} THEN {built} ELSE {Merge(d, built) : d \in disk}
    BY <1>1 DEF Build
  <2> DEFINE built == [text |-> text, ja |-> [u \in Units |-> {}], doubtful |-> doubt, status |-> "structured",
                       of |-> source, structureOf |-> made]
  <2>2. new = Merge(old, built)
    BY <1>0, <1>1, <2>1 DEF Build
  <2>3. Shaped(built)
    <3>1. text \in [Units -> Texts]
      BY ReadingsAreDocuments DEF DocumentInv
    <3> QED
      BY <3>1 DEF Shaped
  <2> HIDE DEF built
  <2>4. /\ new.text = built.text
        /\ \A u, v \in Units :
             /\ old.text[u] = built.text[v]
             /\ u = v \/ \A w \in Units : old.text[w] = old.text[u] => w = u
             => new.ja[v] = old.ja[u]
    BY SMTT(40), <1>0, <2>2, <2>3, Merged
  <2> QED
    BY <2>4 DEF Keeps
<1>2. CASE BeginTranslation \/ Conclude
  <2>1. TheDoc = old
    BY <1>0, <1>2, Saved DEF BeginTranslation, Conclude, Step, WithDoc
  <2>2. \E status : new = [old EXCEPT !.status = status]
    BY <1>2, <2>1 DEF BeginTranslation, Conclude, SaveDoc
  <2> QED
    BY <1>0, <2>2, SameTextKeeps DEF Shaped
<1>3. ASSUME NEW i \in DOMAIN tasks, NEW doubt \in BOOLEAN, Apply(i, doubt) PROVE Keeps(old, new)
  <2>1. TheDoc = old
    BY <1>0, <1>3, Saved DEF Apply, Step, WithDoc
  <2>2. new = [old EXCEPT !.ja = [u \in Units |-> IF u \in chunks[i] THEN {old.text[u]} ELSE @[u]],
  !.doubtful = @ \/ doubt]
    BY <1>3, <2>1 DEF Apply, SaveDoc
  <2>3. new.text = old.text /\ new.ja = [u \in Units |-> IF u \in chunks[i] THEN {old.text[u]} ELSE old.ja[u]]
    BY <1>0, <2>2 DEF Shaped
  <2>4. \A u \in Units : old.ja[u] # {} => old.ja[u] = {old.text[u]}
    BY <1>0 DEF Matches
  <2>5. \A u \in Units : old.ja[u] # {} => new.ja[u] = old.ja[u]
    BY <2>3, <2>4
  <2> QED
    BY ZenonT(40), <2>3, <2>5, SameTextKeeps
<1>4. CASE disk' \in {disk, {Torn}}
  <2>1. new = old
    BY <1>0, <1>4
  <2> QED
    BY <2>1, SameTextKeeps
<1> QED
  BY <1>1, <1>2, <1>3, <1>4, DocumentSteps

-------------------------------------------------------------------------------
LEMMA PoolInvStep ==
  ASSUME DocumentInv, PoolInv, [Next]_vars
  PROVE  PoolInv'
<1> USE DEF Pool, Rendering
<1>1. CASE BeginTranslation
  <2>1. PICK d : doc = {d} /\ TheDoc = d /\ Shaped(d)
    BY <1>1, Saved DEF BeginTranslation, Step, WithDoc
  <2> DEFINE new == [d EXCEPT !.status = "translating"]
             pending == Units \ Translated(d)
  <2>2. doc' = {new} /\ pc' = "progress" /\ chunks' \in Packings(pending)
        /\ tasks' = [i \in 1 .. Len(chunks') |-> [state |-> "queued", tries |-> 0]]
    BY <1>1, <2>1 DEF BeginTranslation, SaveDoc, Step
  <2>3. TheDoc' = new
    BY <2>2 DEF TheDoc
  <2>4. new.ja = d.ja /\ new.status = "translating"
    BY <2>1 DEF Shaped
  <2>5. PICK n \in Nat : chunks' \in [1 .. n -> (SUBSET pending) \ {{}}]
    <3> DEFINE Some == (SUBSET pending) \ {{}}
               all == UNION {[1 .. n -> Some] : n \in 0 .. Cardinality(pending)}
    <3>1. chunks' \in all
      BY <2>2 DEF Packings
    <3> HIDE DEF Some
    <3>2. PICK n \in 0 .. Cardinality(pending) : chunks' \in [1 .. n -> Some]
      BY <3>1
    <3> QED
      BY SMTT(40), <3>2 DEF Some
  <2>6. Len(chunks') = n /\ DOMAIN chunks' = 1 .. n /\ UNION {chunks'[i] : i \in DOMAIN chunks'} = pending
    BY <2>2, <2>5 DEF Packings
  <2>7. \A u \in pending : \E i \in DOMAIN tasks' : u \in chunks'[i] /\ tasks'[i].state = "queued"
    BY <2>2, <2>6
  <2>8. \A i \in DOMAIN tasks' : chunks'[i] \subseteq Units
    BY <2>2, <2>5, <2>6
  <2> QED
    BY <2>2, <2>3, <2>4, <2>7, <2>8 DEF PoolInv, Uncovered, Translated
<1>2. ASSUME NEW i \in DOMAIN tasks, NEW doubt \in BOOLEAN, Apply(i, doubt) PROVE PoolInv'
  <2>1. PICK d : doc = {d} /\ TheDoc = d /\ Shaped(d)
    BY <1>2, Saved DEF Apply, Step, WithDoc
  <2> DEFINE ja == [u \in Units |-> IF u \in chunks[i] THEN {d.text[u]} ELSE d.ja[u]]
             new == [d EXCEPT !.ja = ja, !.doubtful = @ \/ doubt]
  <2>2. doc' = {new} /\ pc = "pool" /\ pc' = "progress" /\ chunks' = chunks /\ tasks' = [tasks EXCEPT ![i].state = "applied"]
    BY <1>2, <2>1 DEF Apply, SaveDoc, Step, Shaped
  <2>3. TheDoc' = new
    BY <2>2 DEF TheDoc
  <2>4. new.ja = ja /\ new.status = d.status
    BY <2>1 DEF Shaped
  <2>5. d.status = "translating" /\ Uncovered(d) = {}
    BY <2>1, <2>2 DEF PoolInv
  <2>6. DOMAIN tasks' = DOMAIN tasks /\ \A j \in DOMAIN tasks \ {i} : tasks'[j] = tasks[j]
    BY <2>2
  <2> HIDE DEF new
  <2>7. \A u \in Units : new.ja[u] = {} => \E j \in DOMAIN tasks' : u \in chunks'[j] /\ tasks'[j].state # "applied"
    <3> SUFFICES ASSUME NEW u \in Units, new.ja[u] = {} PROVE \E j \in DOMAIN tasks' : u \in chunks'[j] /\ tasks'[j].state # "applied"
      OBVIOUS
    <3>1. u \notin chunks[i] /\ d.ja[u] = {}
      BY <2>4
    <3>2. PICK j \in DOMAIN tasks : u \in chunks[j] /\ tasks[j].state # "applied"
      BY <2>5, <3>1 DEF Uncovered
    <3> QED
      BY <2>2, <2>6, <3>1, <3>2
  <2> QED
    BY <2>1, <2>2, <2>3, <2>4, <2>5, <2>6, <2>7 DEF PoolInv, Uncovered
<1>3. CASE Conclude
  <2>1. PICK d : doc = {d} /\ TheDoc = d /\ Shaped(d)
    BY <1>3, Saved DEF Conclude, Step, WithDoc
  <2>2. PICK status \in {"needs_review", "translated"} : doc' = {[d EXCEPT !.status = status]}
    BY <1>3, <2>1 DEF Conclude, SaveDoc
  <2>3. TheDoc' = [d EXCEPT !.status = status]
    BY <2>2 DEF TheDoc
  <2>4. TheDoc'.ja = d.ja /\ TheDoc'.status # "translating"
    BY <2>1, <2>3 DEF Shaped
  <2>5. Translated(d) = Units
    BY <1>3, <2>1 DEF Conclude, Step, PoolInv, Uncovered, Translated
  <2> QED
    BY <1>3, <2>1, <2>4, <2>5 DEF Conclude, Step, PoolInv, Uncovered, Translated, poolVars
<1>4. ASSUME NEW i \in DOMAIN tasks, Thread(i) PROVE PoolInv'
  <2>1. PICK from, to : Task(i, from, to) /\ to.state # "applied"
    BY <1>4 DEF Thread, Fetch, AcceptAnswer, RejectAnswer
  <2>2. /\ pc \in Pool /\ UNCHANGED <<pc, settings, doc, chunks>>
        /\ DOMAIN tasks' = DOMAIN tasks /\ tasks'[i] = to /\ \A j \in DOMAIN tasks \ {i} : tasks'[j] = tasks[j]
    BY <2>1 DEF Task, processVars, textVars
  <2>3. TheDoc' = TheDoc
    BY <2>2 DEF TheDoc
  <2>4. Uncovered(TheDoc)' = {}
    <3> SUFFICES ASSUME NEW u \in Units, TheDoc.ja[u] = {} PROVE \E j \in DOMAIN tasks' : u \in chunks'[j] /\ tasks'[j].state # "applied"
      BY <2>3 DEF Uncovered
    <3>1. PICK j \in DOMAIN tasks : u \in chunks[j] /\ tasks[j].state # "applied"
      BY <2>2 DEF PoolInv, Uncovered
    <3> QED
      BY <2>1, <2>2, <3>1
  <2> QED
    BY <2>2, <2>3, <2>4 DEF PoolInv, Translated
<1>5. CASE UNCHANGED <<settings, doc, chunks, tasks>> /\ (pc' \in Pool \cup Rendering => pc' = pc)
  BY <1>5 DEF PoolInv, Uncovered, Translated, TheDoc
<1>6. CASE pc' \notin Pool \cup Rendering
  BY <1>6 DEF PoolInv
<1>7. CASE Announce
  BY <1>7 DEF Announce, Step, PoolInv, processVars
<1>8. CASE Progress \/ Abandon
  BY ZenonT(40), <1>8 DEF Progress, Abandon, Step, PoolInv, Uncovered, Translated, TheDoc, processVars,
     textVars, poolVars
<1>9. CASE RenderAssets \/ RenderIndex \/ (\E verdict \in {"passed", "failed"} : WriteQa(verdict)) \/ CreateBundle
  BY <1>9 DEF RenderAssets, RenderIndex, WriteQa, CreateBundle, Step, PoolInv, Translated, TheDoc,
     processVars, textVars
<1>10. CASE Convert(DoclingCall) \/ Convert(DoclingSurroundings) \/ RecordPdf \/ UNCHANGED vars
  BY <1>5, <1>10 DEF Convert, pipelineVars, RecordPdf, vars, processVars, textVars, poolVars
<1>11. CASE (\E s \in Sources, arguments \in Arguments : Begin(s, arguments)) \/ Structured \/ LayoutEvidence \/ Review
             \/ AnalyzedAll \/ Crops \/ Build \/ Finish \/ Raise \/ Kill
  BY <1>6, <1>11 DEF Begin, Structured, LayoutEvidence, Review, AnalyzedAll, Crops, Build, Finish,
     Raise, Kill, Step
<1>12. CASE ReuseBatch \/ AskForStructure \/ SplitBatch
  BY <1>6, <1>12 DEF ReuseBatch, AskForStructure, SplitBatch, Analyze
<1> QED
  BY <1>1, <1>2, <1>3, <1>4, <1>7, <1>8, <1>9, <1>10, <1>11, <1>12 DEF Next, Main

-------------------------------------------------------------------------------
LEMMA FilesInvStep ==
  ASSUME DocumentInv, PoolInv, FilesInv, [Next]_vars
  PROVE  FilesInv'
<1>1. CASE /\ UNCHANGED <<run, html, bundle, manifest>> /\ pc' \notin {"index", "check", "bundle", "finish"} /\ pc # "ended"
           /\ pc' \in Drawn => pc \in Drawn /\ UNCHANGED pictureVars
  BY <1>1 DEF FilesInv, PublishedStatusIsEarned, pictureVars
<1>2. CASE UNCHANGED <<pc, run, assets, shown, html, bundle>> /\ (manifest'.status = manifest.status /\ manifest'.done = manifest.done)
  BY <1>2 DEF FilesInv, PublishedStatusIsEarned
<1>3. ASSUME NEW s \in Sources, NEW arguments \in Arguments, Begin(s, arguments) PROVE FilesInv'
  <2>1. pc' = "extract" /\ UNCHANGED <<html, bundle>> /\ manifest'.status \notin Published
    BY <1>3 DEF Begin, WriteManifest, Published, publicVars
  <2> QED
    BY <2>1 DEF FilesInv, PublishedStatusIsEarned, Drawn, WithDoc
<1>4. CASE Announce \/ Progress
  <2>1. /\ pc \in Drawn /\ pc' \notin {"index", "check", "bundle", "finish"} /\ UNCHANGED <<run, assets, shown, html, bundle>>
        /\ manifest'.status \notin Published
    BY <1>4 DEF Announce, Progress, Step, WriteManifest, InProgress, Published, processVars, pictureVars, publicVars,
       Drawn, WithDoc
  <2> QED
    BY <2>1 DEF FilesInv, PublishedStatusIsEarned
<1>5. CASE RenderAssets \/ RenderIndex \/ (\E verdict \in {"passed", "failed"} : WriteQa(verdict)) \/ CreateBundle
  <2>1. manifest.status \notin Published /\ UNCHANGED <<manifest, run, assets, shown>> /\ pc \in Drawn
    BY <1>5 DEF RenderAssets, RenderIndex, WriteQa, CreateBundle, Step, FilesInv, processVars, pictureVars, Drawn, WithDoc
  <2>2. FilesInv /\ PublishedStatusIsEarned'
    BY <2>1 DEF PublishedStatusIsEarned
  <2>3. CASE RenderAssets
    BY <2>1, <2>2, <2>3 DEF RenderAssets, Step, FilesInv
  <2>4. CASE RenderIndex
    BY <2>1, <2>2, <2>4 DEF RenderIndex, Step, FilesInv
  <2>5. CASE \E verdict \in {"passed", "failed"} : WriteQa(verdict)
    BY <2>1, <2>2, <2>5 DEF WriteQa, Step, FilesInv
  <2>6. CASE CreateBundle
    BY <2>1, <2>2, <2>6 DEF CreateBundle, Step, FilesInv
  <2> QED
    BY <1>5, <2>3, <2>4, <2>5, <2>6
<1>6. CASE Finish
  <2>1. PICK emptyPages \in BOOLEAN : WriteManifest(FinalStatus(emptyPages), source, doc)
    BY <1>6 DEF Finish
  <2>2. /\ pc = "finish" /\ pc' = "ended" /\ UNCHANGED <<html, bundle>>
        /\ manifest'.status = FinalStatus(emptyPages) /\ manifest'.done = TranslatedOf(doc)
    BY <1>6, <2>1 DEF Finish, Step, WriteManifest, publicVars
  <2>3. /\ html.index = Index(run, shown) /\ bundle = html
        /\ \A p \in shown : html.assets[p] = run
        /\ \E verdict : html.qa = Page(run, verdict)
    BY <2>2 DEF FilesInv
  <2>4. manifest'.status \in Published => html.qa = Page(run, "passed")
    BY <2>2, <2>3 DEF FinalStatus, Published, Page
  <2>5. manifest'.status = "completed" => manifest'.done = Units
    <3> SUFFICES ASSUME FinalStatus(emptyPages) = "completed" PROVE TranslatedOf(doc) = Units
      BY <2>2
    <3>1. settings.mode = "translate"
      BY DEF FinalStatus, DocumentInv, Arguments, Modes
    <3>2. Translated(TheDoc) = Units
      BY <2>2, <3>1 DEF PoolInv, Rendering
    <3>3. PICK d : doc = {d} /\ TheDoc = d
      BY <2>2, Saved DEF WithDoc
    <3> QED
      BY <3>2, <3>3 DEF TranslatedOf
  <2>6. PublishedStatusIsEarned'
    BY <2>2, <2>3, <2>4, <2>5 DEF PublishedStatusIsEarned, Index
  <2> QED
    BY <2>2, <2>6 DEF FilesInv, Drawn, WithDoc
<1>7. CASE Raise
  <2>1. pc' = "ended" /\ manifest'.status \notin Published
    BY <1>7 DEF Raise, WriteManifest, Published
  <2>2. DOMAIN html' = DOMAIN html
    BY <1>7 DEF Raise, CutShort
  <2> QED
    BY <2>1, <2>2 DEF FilesInv, PublishedStatusIsEarned, Drawn, WithDoc
<1>8. CASE Kill
  <2>1. pc' = "ended" /\ manifest' = manifest /\ manifest.status \notin Published
    BY <1>8 DEF Kill, FilesInv, Working
  <2>2. DOMAIN html' = DOMAIN html
    BY <1>8 DEF Kill, CutShort
  <2> QED
    BY <2>1, <2>2 DEF FilesInv, PublishedStatusIsEarned, Drawn, WithDoc
<1>9. CASE LayoutEvidence \/ Review \/ AnalyzedAll \/ Build
  BY <1>1, <1>9 DEF LayoutEvidence, Review, AnalyzedAll, Build,
     Step, processVars, publicVars, Drawn, WithDoc
<1>13. CASE Structured \/ Crops
  <2>1. PICK drawn \in SUBSET Pictures : (\E blank : Draw(drawn, blank)) /\ shown' = drawn
    BY <1>13 DEF Structured, Crops, DrawPictures
  <2>2. \A p \in shown' : p \in Pictures /\ assets'[p] = run
    BY <2>1 DEF Draw
  <2>3. pc' = "build" /\ pc # "ended" /\ UNCHANGED <<run, html, bundle, manifest>>
    BY <1>13 DEF Structured, Converting, Crops, Step, processVars, publicVars
  <2> QED
    BY <2>2, <2>3 DEF FilesInv, PublishedStatusIsEarned
<1>10. CASE BeginTranslation \/ Abandon \/ Conclude \/ \E i \in DOMAIN tasks, doubt \in BOOLEAN : Apply(i, doubt)
  BY <1>1, <1>10 DEF BeginTranslation, Abandon, Conclude, Apply, Step, processVars, publicVars, Drawn, WithDoc
<1>11. CASE ReuseBatch \/ AskForStructure \/ SplitBatch \/ Convert(DoclingCall) \/ Convert(DoclingSurroundings)
  BY <1>2, <1>11 DEF ReuseBatch, AskForStructure, SplitBatch, Analyze, Convert, pipelineVars,
     processVars, pictureVars, publicVars
<1>12. CASE (\E i \in DOMAIN tasks : Thread(i)) \/ RecordPdf \/ UNCHANGED vars
  <2>1. RecordPdf => manifest'.status = manifest.status /\ manifest'.done = manifest.done
    BY DEF RecordPdf
  <2> QED
    BY <1>2, <1>12, <2>1 DEF Thread, Fetch, AcceptAnswer, RejectAnswer, Task, RecordPdf, vars,
       pipelineVars, processVars, pictureVars, publicVars
<1> QED
  BY <1>3, <1>4, <1>5, <1>6, <1>7, <1>8, <1>9, <1>10, <1>11, <1>12, <1>13 DEF Next, Main

-------------------------------------------------------------------------------
Inv == ConversionInv /\ DocumentInv /\ PoolInv /\ FilesInv

LEMMA Initially == Init => Inv
<1> SUFFICES ASSUME Init PROVE Inv
  OBVIOUS
<1>1. ConversionInv
  BY DEF Init, DoclingInit, ConversionInv
<1>2. DocumentInv
  BY DEF Init, DocumentInv, Arguments, Parsers, Modes, WithDoc
<1>3. PoolInv
  BY DEF Init, PoolInv, Pool, Rendering
<1>4. FilesInv
  BY DEF Init, FilesInv, PublishedStatusIsEarned, Published, Drawn, WithDoc
<1> QED
  BY <1>1, <1>2, <1>3, <1>4 DEF Inv

\* Types, and what each step of a conversion, of the page pool and of the pipeline
\* has made so far: the inductive invariant of the rest.
THEOREM InvHolds == Spec => []Inv
<1>1. Inv /\ [Next]_vars => Inv'
  BY ConversionInvStep, DocumentInvStep, PoolInvStep, FilesInvStep DEF Inv
<1> QED
  BY <1>1, Initially, PTL DEF Spec

\* A document is the answer only of an attempt that ran to its end.
THEOREM DocumentsAreEarned == Spec => []DocumentIsEarned
<1>1. Inv => DocumentIsEarned
  BY DEF Inv, ConversionInv, DocumentIsEarned
<1> QED
  BY <1>1, InvHolds, PTL

\* No process, output file or resource limit of a conversion outlives the call that made it.
THEOREM ConversionsAreReleased == Spec => []ConversionReleased
<1>1. Inv => ConversionReleased
  BY DEF Inv, ConversionInv, ConversionReleased, NothingOutlivesTheCall, Waiting
<1> QED
  BY <1>1, InvHolds, PTL

\* A manifest that presents a paper does so for a checked page whose pictures its own run drew,
\* whatever earlier runs left in work/assets and in html/.
THEOREM PublishedStatusEarned == Spec => []PublishedStatusIsEarned
<1>1. Inv => PublishedStatusIsEarned
  BY DEF Inv, FilesInv
<1> QED
  BY <1>1, InvHolds, PTL

\* A translation stands under the original it was made for.
THEOREM TranslationsStandUnderTheirOriginals == Spec => []TranslationsMatch
<1>1. Inv => TranslationsMatch
  BY DEF Inv, DocumentInv, TranslationsMatch, Matches
<1> QED
  BY <1>1, InvHolds, PTL

\* No run takes a translation out of the document while its original is still found.
THEOREM TranslationsAreKept == Spec => TranslationsKept
<1> DEFINE Kept == \A old \in disk \ {Torn}, new \in disk' \ {Torn} : Keeps(old, new)
<1>1. Inv /\ [Next]_vars => [Kept]_vars
  BY KeptStep DEF Inv
<1>2. Spec => [][Kept]_vars
  BY <1>1, InvHolds, PTL DEF Spec
<1> QED
  BY <1>2, PTL DEF TranslationsKept, Keeps
===============================================================================
