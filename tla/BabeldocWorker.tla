---------------------------- MODULE BabeldocWorker ----------------------------
(***************************************************************************)
(* The worker of a BabelDOC container: cli.py, contract.py, runner.py and  *)
(* events.py.  One process reads a request, asks whether it is ready, runs *)
(* the engine, collects what it made and says so on stdout; it may be      *)
(* killed at any time.                                                     *)
(***************************************************************************)
EXTENDS CandidateAcceptance, WorkerReadiness, RuntimeAssets

CONSTANTS
  Engine,       \* what the engine may make for a role: records [kind, bytes]
  ReportBytes,  \* size of the report
  Quota,        \* bytes of the output volume
  MaxProgress   \* bound: progress events of one run

\* "moved" and "short" differ from the source in their pages, "leaky" has the
\* secret in it, "foreign" is outside the engine's directory or a link.
EngineKinds == {"good", "moved", "short", "leaky", "notpdf", "foreign"}
ASSUME EngineAssumption == Engine \subseteq [kind : EngineKinds, bytes : Nat]

VARIABLES
  job,     \* request, source, image, secret and surroundings of this run
  wpc,     \* where the worker is
  wexit,   \* "none", "ok", "failed", "killed"
  lines,   \* its stdout
  volume   \* what is in /output

workerVars == <<wpc, wexit, lines, volume>>

EmptyVolume == [engine |-> <<>>, kept |-> <<>>, report |-> FALSE, document |-> FALSE]

WorkerInit == wpc = "off" /\ wexit = "none" /\ lines = <<>> /\ volume = EmptyVolume

-----------------------------------------------------------------------------
(* Files.  The digest of an output says what it is; its pages are those of  *)
(* the source, once or twice, unless the engine moved or lost some.         *)
OutputPages(item, role) ==
  LET pages == job.source.pdf.pages
      all == IF role = "mono" THEN pages
             ELSE [i \in 1 .. 2 * Len(pages) |-> pages[(i + 1) \div 2]]
  IN  CASE item.kind = "moved" -> [all EXCEPT ![1] = "elsewhere"]
        [] item.kind = "short" -> Tail(all)
        [] OTHER -> all

OutputFile(item, role) ==
  [digest |-> <<item.kind, role>>, bytes |-> item.bytes,
   pdf |-> [faults |-> {}, pages |-> OutputPages(item, role), uris |-> {}, objects |-> <<>>],
   qpdf |-> "passed", safe |-> TRUE]

ReportFile == [digest |-> <<"json", "report">>, bytes |-> ReportBytes,
               pdf |-> [faults |-> {"json"}, pages |-> <<>>, uris |-> {}, objects |-> <<>>],
               qpdf |-> "none", safe |-> TRUE]

BytesOf(files) == MapThenSumSet(LAMBDA r : files[r].bytes, DOMAIN files)
Used(v) == BytesOf(v.engine) + BytesOf(v.kept) + (IF v.report THEN ReportBytes ELSE 0)

(* The roles in the order they are collected. *)
RoleOrder(roles) ==
  (IF "mono" \in roles THEN <<"mono">> ELSE <<>>) \o (IF "dual" \in roles THEN <<"dual">> ELSE <<>>)

PageMap(role) ==
  [i \in DOMAIN job.source.pdf.pages |->
     [sourcePage |-> i, outputPages |-> ExpectedOutput(role, i)]]

WorkerResult ==
  LET entry(r, file) == [role |-> r, digest |-> file.digest, bytes |-> file.bytes]
      order == RoleOrder(job.request.outputs)
  IN  [wellFormed |-> TRUE, runId |-> job.request.runId,
       sourceDigest |-> job.request.sourceDigest,
       artifacts |-> Append([i \in DOMAIN order |->
                               entry(order[i], OutputFile(volume.kept[order[i]], order[i]))],
                            entry("report", ReportFile)),
       pageMaps |-> [r \in job.request.outputs |-> PageMap(r)]]

-----------------------------------------------------------------------------
(* Events: numbered, and stamped with the clock of the host, which may be   *)
(* set back before line job.skew.                                           *)
Line(n, type, role, digest) ==
  [type |-> type, runId |-> job.request.runId, sequence |-> n,
   time |-> IF n = job.skew THEN 0 ELSE n, role |-> role, digest |-> digest]
Emitted(said, types) ==
  said \o [i \in DOMAIN types |-> Line(Len(said) + i, types[i], "none", "none")]

Stop(how) == wpc' = "stopped" /\ wexit' = how

(* Every error ends in one failed event; what the engine made is removed.   *)
Raise ==
  /\ Stop("failed")
  /\ lines' = Emitted(lines, <<"failed">>)
  /\ volume' = [volume EXCEPT !.engine = <<>>]

Continue(label) == wpc' = label /\ UNCHANGED wexit

(* parse_request: narrower than what the host lets through. *)
WorkerAccepts(request) ==
  /\ request.wellFormed
  /\ request.sourceBytes \in 1 .. MaxInputBytes
  /\ request.languages = <<"en", "ja">>
  /\ request.approved
  /\ request.outputs # {} /\ request.outputs \subseteq PdfRoles
  /\ request.maxPages \in 1 .. MaxPages
  /\ request.maxBytes \in 1 .. MaxOutputBytes

Start ==
  /\ wpc = "start"
  /\ IF volume = EmptyVolume /\ WorkerAccepts(job.request)
     THEN Continue("readiness") /\ lines' = Emitted(<<>>, <<"started">>) /\ UNCHANGED volume
     ELSE Stop("failed") /\ lines' = Emitted(<<>>, <<"started", "failed">>) /\ UNCHANGED volume
  /\ UNCHANGED assetVars

CheckReadiness ==
  /\ wpc = "readiness"
  /\ IF FailedChecks(job.image, job.given, job.machine, job.runSandbox, job.secret, TRUE) = {}
     THEN /\ Continue("assets")
          /\ at' = [at EXCEPT ![RunCall] = "begin"]
          /\ UNCHANGED <<lines, volume>>
     ELSE Raise /\ UNCHANGED at
  /\ UNCHANGED <<links, dirs, cacheDb, todo, made, answer, full>>

(* The import of the engine makes its cache file; then the mounted profile  *)
(* has to be the one the request names.                                     *)
ImportEngine ==
  /\ wpc = "assets" /\ answer[RunCall] # "none"
  /\ IF answer[RunCall] = "ready"
     THEN /\ cacheDb' = TRUE
          /\ \/ /\ job.secret.identity = job.request.identity
                /\ Continue("validate") /\ UNCHANGED <<lines, volume>>
             \/ Raise
     ELSE Raise /\ UNCHANGED cacheDb
  /\ UNCHANGED <<links, dirs, at, todo, made, answer, full>>

SourceValid ==
  /\ job.source.bytes = job.request.sourceBytes
  /\ job.source.digest = job.request.sourceDigest
  /\ job.source.pdf.faults = {}
  /\ Len(job.source.pdf.pages) \in 1 .. job.request.maxPages

ValidateInput ==
  /\ wpc = "validate"
  /\ IF SourceValid
     THEN Continue("translate") /\ lines' = Emitted(lines, <<"stage", "stage">>)
     ELSE Stop("failed") /\ lines' = Emitted(lines, <<"stage", "failed">>)
  /\ UNCHANGED <<volume, assetVars>>

Progress ==
  /\ wpc = "translate"
  /\ Cardinality({i \in DOMAIN lines : lines[i].type = "progress"}) < MaxProgress
  /\ lines' = Emitted(lines, <<"progress">>)
  /\ UNCHANGED <<wpc, wexit, volume, assetVars>>

(* finish: a file for each role or none.  A full volume fails the engine.   *)
EngineFinishes ==
  /\ wpc = "translate"
  /\ \E roles \in SUBSET job.request.outputs : \E files \in [roles -> Engine] :
       /\ BytesOf(files) <= Quota
       /\ volume' = [volume EXCEPT !.engine = files]
  /\ Continue("collect")
  /\ lines' = Emitted(lines, <<"stage">>)
  /\ UNCHANGED assetVars

(* error, a malformed event, the deadline, cancellation or no finish event. *)
EngineFails == wpc = "translate" /\ Raise /\ UNCHANGED assetVars

(* _regular_file_inside and _copy_pdf: the copy lies beside the original    *)
(* until every role is collected.                                           *)
CopyIsGood(role) ==
  /\ role \in DOMAIN volume.engine
  /\ LET file == volume.engine[role] IN
       /\ file.kind # "foreign" /\ file.kind # "notpdf"
       /\ file.bytes <= ArtifactLimit(job.request, role).bytes
       /\ Len(OutputPages(file, role)) = PagesPerSource(role) * Len(job.source.pdf.pages)
       /\ Used(volume) + file.bytes <= Quota
       /\ BytesOf(volume.kept) + file.bytes <= job.request.maxBytes

Collect ==
  /\ wpc = "collect"
  /\ LET left == RoleOrder(job.request.outputs \ DOMAIN volume.kept) IN
       IF left = <<>> THEN Continue("report") /\ UNCHANGED <<lines, volume>>
       ELSE IF CopyIsGood(Head(left))
       THEN /\ Continue("collect") /\ UNCHANGED lines
            /\ volume' = [volume EXCEPT !.kept =
                 [r \in DOMAIN @ \cup {Head(left)} |-> volume.engine[r]]]
       ELSE Raise
  /\ UNCHANGED assetVars

(* Mutant: the artifacts are announced before worker-result.json is there.  *)
ReportAndAnnounce ==
  /\ wpc = "report"
  /\ Continue("announce")
  /\ volume' = [volume EXCEPT !.report = TRUE]
  /\ UNCHANGED <<lines, assetVars>>
Report ==
  /\ wpc = "report"
  /\ IF /\ Used(volume) + ReportBytes <= Quota
        /\ BytesOf(volume.kept) + ReportBytes <= job.request.maxBytes
     THEN /\ Continue("result") /\ UNCHANGED lines
          /\ volume' = [volume EXCEPT !.report = TRUE, !.engine = <<>>]
     ELSE Raise
  /\ UNCHANGED assetVars

(* No room for the document, as for the report, raises. *)
WriteResult ==
  /\ wpc = "result"
  /\ \/ /\ volume' = [volume EXCEPT !.document = TRUE]
        /\ Continue("announce") /\ UNCHANGED lines
     \/ Raise
  /\ UNCHANGED assetVars

Announce ==
  /\ wpc = "announce"
  /\ LET said == Cardinality(ArtifactLines(lines))
         artifacts == WorkerResult.artifacts
     IN  IF said < Len(artifacts)
         THEN /\ LET a == artifacts[said + 1] IN
                   lines' = Append(lines, Line(Len(lines) + 1, "artifact", a.role, a.digest))
              /\ UNCHANGED <<wpc, wexit>>
         ELSE Continue("exit") /\ lines' = Emitted(lines, <<"completed">>)
  /\ UNCHANGED <<volume, assetVars>>

(* What is killed between its last word and its exit has not ended well. *)
Exit == wpc = "exit" /\ Stop("ok") /\ UNCHANGED <<lines, volume, assetVars>>

Working == wpc \notin {"off", "stopped"}

Work ==
  \/ Start \/ CheckReadiness \/ ImportEngine \/ ValidateInput \/ Progress
  \/ EngineFinishes \/ EngineFails \/ Collect \/ Report \/ WriteResult \/ Announce
  \/ Exit

-----------------------------------------------------------------------------
(* A worker that says "completed" has written its result document, has      *)
(* removed what the engine left, and holds every file the document names,   *)
(* whatever the engine made and wherever the volume was full.               *)
CompletedIsWhole ==
  lines # <<>> /\ LastOf(lines).type = "completed" =>
    /\ volume.document /\ volume.report /\ volume.engine = <<>>
    /\ DOMAIN volume.kept = job.request.outputs
    /\ EventsMatchResult(lines, WorkerResult)
    /\ BytesOf(volume.kept) + ReportBytes <= job.request.maxBytes
=============================================================================
