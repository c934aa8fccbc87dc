-------------------------- MODULE CandidateAcceptance --------------------------
(***************************************************************************)
(* What the host accepts of a worker: the validation half of               *)
(* pdf_translation_worker.py, up to the point where publish_candidate_run  *)
(* makes directories (CandidatePublication goes on from there).            *)
(*                                                                         *)
(* A digest stands for a content.  A field whose value only has to have a  *)
(* form is left out; where several such fields may be wrong, the document  *)
(* has one flag (wellFormed) for all of them.  A PDF is abstracted to its  *)
(* parts that other documents are compared with: pages (their geometry),   *)
(* external URIs, objects, and the faults a parser finds.                  *)
(***************************************************************************)
EXTENDS Naturals, Sequences, FiniteSets, FiniteSetsExt

CONSTANTS
  MaxPages,        \* MAX_PAGES
  MaxInputBytes,   \* MAX_INPUT_BYTES
  MaxOutputBytes   \* MAX_OUTPUT_BYTES

ASSUME LimitAssumption == {MaxPages, MaxInputBytes, MaxOutputBytes} \subseteq Nat

PdfRoles == {"mono", "dual"}
ArtifactRoles == PdfRoles \cup {"report"}
EventTypes == {"started", "stage", "progress", "warning", "artifact", "completed", "failed"}
Terminal == {"completed", "failed"}

LastOf(s) == s[Len(s)]

-----------------------------------------------------------------------------
(* The event stream: one pass over the lines that remembers the sequence    *)
(* number, the time and whether a terminal event was seen.                  *)
(* Mutant: a sequence number may repeat.                                     *)
LineFollowsRepeat(e, before) ==
  /\ e.sequence >= before.sequence
  /\ e.time >= before.time
  /\ before.type \notin Terminal
  /\ e.type # "started"
LineFollows(e, before) ==
  /\ e.sequence > before.sequence
  /\ e.time >= before.time
  /\ before.type \notin Terminal
  /\ e.type # "started"

EventsAccepted(runId, lines) ==
  /\ lines # <<>>
  /\ \A i \in DOMAIN lines :
       /\ lines[i].type \in EventTypes
       /\ lines[i].runId = runId
       /\ lines[i].sequence > 0
       /\ i > 1 => LineFollows(lines[i], lines[i - 1])
  /\ lines[1].type = "started"
  /\ LastOf(lines).type \in Terminal

-----------------------------------------------------------------------------
(* Requests, backend health and the worker's result document.              *)

RequestAccepted(request, source) ==
  /\ request.wellFormed
  /\ request.sourceBytes \in 1 .. MaxInputBytes
  /\ request.languages[1] # request.languages[2]
  /\ request.outputs # {} /\ request.outputs \subseteq PdfRoles
  /\ request.maxPages \in 1 .. MaxPages
  /\ request.maxBytes \in 1 .. MaxOutputBytes
  /\ source.bytes = request.sourceBytes
  /\ source.digest = request.sourceDigest

(* BabelDOC backends need the versions with the fixed parsers and a fork    *)
(* revision somebody approved; the others only a well-formed one.           *)
HealthAccepted(health, approved, outputs) ==
  /\ health.wellFormed
  /\ health.ready
  /\ outputs \subseteq health.outputs
  /\ health.outputs \subseteq PdfRoles
  /\ health.babeldoc => health.fixedVersions /\ health.fork \in approved

(* One declaration for every requested PDF, none twice, and a page map for  *)
(* each of them.                                                            *)
DeclaredRoles(document) == {document.artifacts[i].role : i \in DOMAIN document.artifacts}
ResultDocumentAccepted(document, request) ==
  LET roles == DeclaredRoles(document) IN
  /\ document.wellFormed
  /\ document.runId = request.runId
  /\ document.sourceDigest = request.sourceDigest
  /\ roles \subseteq ArtifactRoles
  /\ Cardinality(roles) = Len(document.artifacts)
  /\ roles \cap PdfRoles = request.outputs
  /\ DOMAIN document.pageMaps = request.outputs

-----------------------------------------------------------------------------
(* PDF inspection.  An object of a PDF is an action or not, may hold an     *)
(* action of its own (direct) and refer to others with /A and /Next.        *)

PlainAction(action, uris) ==
  \/ action.subtype = "GoTo" /\ action.destination
  \/ action.subtype = "URI" /\ action.uri \in uris

(* The work list: /A references of every object, then the /Next references  *)
(* of what they reach.                                                      *)
ReachedActions(objects) ==
  LET round[n \in Nat] ==
        IF n = 0 THEN UNION {objects[x].actions : x \in DOMAIN objects}
        ELSE round[n - 1] \cup UNION {objects[x].next : x \in round[n - 1] \cap DOMAIN objects}
  IN  round[Cardinality(DOMAIN objects)]

ActiveFindings(objects, uris) ==
  LET reached == ReachedActions(objects) IN
  {x \in reached : x \notin DOMAIN objects \/ ~ PlainAction(objects[x], uris)}
    \cup {x \in DOMAIN objects :
            \/ objects[x].typed /\ ~ PlainAction(objects[x], uris)
            \/ objects[x].subtype \notin {"none", "GoTo", "URI"}}

(* inspect_pdf: opened, not encrypted, bounded, only reviewed link schemes, *)
(* no active content, sound page boxes, every page rendered, no diagnostic. *)
Inspected(pdf, limit) ==
  /\ pdf.faults = {}
  /\ Len(pdf.pages) \in 1 .. limit
  /\ ActiveFindings(pdf.objects, pdf.uris) = {}

-----------------------------------------------------------------------------
(* The page map, entry by entry and then as a whole.                        *)
ExpectedOutput(role, page) == IF role = "mono" THEN <<page>> ELSE <<2 * page - 1, 2 * page>>
PagesPerSource(role) == IF role = "mono" THEN 1 ELSE 2

(* Mutant: only the pages that are mapped are looked at. *)
PageMapAcceptedPartial(map, role, source, output) ==
  \A i \in DOMAIN map :
    /\ map[i].sourcePage \in DOMAIN source
    /\ \A j \in DOMAIN map[i].outputPages :
         /\ map[i].outputPages[j] \in DOMAIN output
         /\ output[map[i].outputPages[j]] = source[map[i].sourcePage]
PageMapAccepted(map, role, source, output) ==
  /\ Len(map) = Len(source)
  /\ \A i \in DOMAIN map :
       /\ map[i].sourcePage \in DOMAIN source
       /\ map[i].outputPages # <<>>
       /\ \A j \in DOMAIN map[i].outputPages :
            /\ map[i].outputPages[j] \in DOMAIN output
            /\ output[map[i].outputPages[j]] = source[map[i].sourcePage]
  /\ Len(output) = PagesPerSource(role) * Len(source)
  /\ \A i \in DOMAIN map :
       map[i] = [sourcePage |-> i, outputPages |-> ExpectedOutput(role, i)]

-----------------------------------------------------------------------------
(* The staging directory against the result document and the source.        *)

Declared(document, role) ==
  LET i == CHOOSE k \in DOMAIN document.artifacts : document.artifacts[k].role = role
  IN  document.artifacts[i]

FilesMatch(staging, document) ==
  /\ staging.extra = {}
  /\ DOMAIN staging.files = DeclaredRoles(document)
  /\ \A r \in DOMAIN staging.files :
       /\ staging.files[r].digest = Declared(document, r).digest
       /\ staging.files[r].bytes = Declared(document, r).bytes
       /\ staging.files[r].bytes > 0

ArtifactLimit(request, role) ==
  [bytes |-> IF request.maxBytes < 5 * request.sourceBytes THEN request.maxBytes
             ELSE 5 * request.sourceBytes,
   pages |-> request.maxPages * PagesPerSource(role)]

PdfAccepted(file, role, request, source, map) ==
  /\ file.bytes <= ArtifactLimit(request, role).bytes
  /\ Inspected(file.pdf, ArtifactLimit(request, role).pages)
  /\ file.qpdf # "failed"
  /\ file.pdf.uris \subseteq source.pdf.uris
  /\ PageMapAccepted(map, role, source.pdf.pages, file.pdf.pages)

StagedBytes(staging) ==
  MapThenSumSet(LAMBDA r : staging.files[r].bytes, DeclaredRoles(staging.document) \cap DOMAIN staging.files)

ResultAccepted(staging, request, source) ==
  LET document == staging.document IN
  /\ staging.hasDocument
  /\ ResultDocumentAccepted(document, request)
  /\ FilesMatch(staging, document)
  /\ StagedBytes(staging) <= request.maxBytes
  /\ "report" \in DOMAIN staging.files => staging.files["report"].safe
  /\ Inspected(source.pdf, request.maxPages) /\ source.qpdf # "failed"
  /\ \A r \in request.outputs \cap DOMAIN staging.files :
       PdfAccepted(staging.files[r], r, request, source, document.pageMaps[r])

(* The artifact events say what the result document says, once each.        *)
ArtifactLines(lines) == {i \in DOMAIN lines : lines[i].type = "artifact"}
EventsMatchResult(lines, document) ==
  LET roles == {lines[i].role : i \in ArtifactLines(lines)} IN
  /\ Cardinality(roles) = Cardinality(ArtifactLines(lines))
  /\ roles = DeclaredRoles(document)
  /\ \A i \in ArtifactLines(lines) : lines[i].digest = Declared(document, lines[i].role).digest

(* Mutant: the source PDF is not read again.                                 *)
CandidateAcceptedUnread(request, source, health, approved, lines, staging) ==
  /\ HealthAccepted(health, approved, request.outputs)
  /\ EventsAccepted(request.runId, lines)
  /\ LastOf(lines).type = "completed"
  /\ ResultAccepted(staging, request, source)
  /\ EventsMatchResult(lines, staging.document)

(* publish_candidate_run, all it checks before it makes a directory.        *)
CandidateAccepted(request, source, health, approved, lines, staging) ==
  /\ RequestAccepted(request, source)
  /\ Inspected(source.pdf, request.maxPages)
  /\ HealthAccepted(health, approved, request.outputs)
  /\ EventsAccepted(request.runId, lines)
  /\ LastOf(lines).type = "completed"
  /\ ResultAccepted(staging, request, source)
  /\ EventsMatchResult(lines, staging.document)

(* The QA record: "passed" only when qpdf read every document.              *)
AutomaticChecks(staging, request, source) ==
  IF \A f \in {staging.files[r] : r \in request.outputs} \cup {source} : f.qpdf = "passed"
  THEN "passed" ELSE "partial"
=============================================================================
