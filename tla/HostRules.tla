------------------------------- MODULE HostRules -------------------------------
(***************************************************************************)
(* The rules the host decides by, each driven by whatever may be put to    *)
(* it: the tags of a paper and the requests of its clients (PaperTags),    *)
(* the event lines and the page map of a worker (CandidateAcceptance) and  *)
(* the document a client translates (TranslationChunks).  A behaviour is   *)
(* about one of them, the subject.                                         *)
(***************************************************************************)
EXTENDS PaperTags, CandidateAcceptance, TranslationChunks, Integers

CONSTANTS
  Line,      \* event lines a worker may write
  MaxLines,  \* lines of one stream
  MapEntry,  \* entries a worker may write into a page map
  Geometry,  \* geometries of a page
  PdfPair,   \* the source and the translated PDF: [role, source, output]
  Item,      \* items of a section, none translated yet
  MaxItems   \* items and sections of one document

ASSUME LineAssumption == \A line \in Line : line.sequence \in Int /\ line.time \in Nat
ASSUME ItemAssumption == Item \subseteq [type : STRING, kind : STRING, size : Nat, done : BOOLEAN]
ASSUME PairAssumption ==
  \A pair \in PdfPair : {pair.source, pair.output} \subseteq Seq(Geometry)

VARIABLES
  subject,
  lines,     \* the event stream of run "r" so far
  pdfs,      \* the pair the page map is about
  pageMap,   \* the page map so far
  document   \* the semantic document of the paper

ruleVars == <<tagVars, subject, lines, pdfs, pageMap, document>>

Heading == [type |-> "unit", kind |-> "heading", size |-> 1, done |-> FALSE]

RulesInit ==
  /\ TagInit
  /\ subject \in {"tags", "events", "pages", "chunks"}
  /\ lines = <<>>
  /\ pdfs \in (IF subject = "pages" THEN PdfPair ELSE {CHOOSE p \in PdfPair : TRUE})
  /\ pageMap = <<>>
  /\ document = [title |-> Heading, sections |-> <<[title |-> Heading, content |-> <<>>]>>]

TagStep ==
  /\ subject = "tags"
  /\ TagNext
  /\ UNCHANGED <<subject, lines, pdfs, pageMap, document>>

(* The worker writes its protocol line by line.                             *)
WriteLine ==
  /\ subject = "events" /\ Len(lines) < MaxLines
  /\ \E line \in Line : lines' = Append(lines, line)
  /\ UNCHANGED <<tagVars, subject, pdfs, pageMap, document>>

MapPages ==
  /\ subject = "pages" /\ Len(pageMap) <= Len(pdfs.source)
  /\ \E entry \in MapEntry : pageMap' = Append(pageMap, entry)
  /\ UNCHANGED <<tagVars, subject, lines, pdfs, document>>

Size == Len(document.sections) + FoldLeft(LAMBDA n, s : n + Len(s.content), 0, document.sections)

OpenSection ==
  /\ subject = "chunks" /\ Size < MaxItems
  /\ document' = [document EXCEPT !.sections = Append(@, [title |-> Heading, content |-> <<>>])]
  /\ UNCHANGED <<tagVars, subject, lines, pdfs, pageMap>>

AddItem ==
  /\ subject = "chunks" /\ Size < MaxItems
  /\ \E item \in Item :
       document' = [document EXCEPT !.sections[Len(document.sections)].content = Append(@, item)]
  /\ UNCHANGED <<tagVars, subject, lines, pdfs, pageMap>>

(* save_paper_translations of one unit.                                     *)
Translate ==
  /\ subject = "chunks"
  /\ \/ document' = [document EXCEPT !.title.done = TRUE]
     \/ \E s \in DOMAIN document.sections :
          \/ document' = [document EXCEPT !.sections[s].title.done = TRUE]
          \/ \E i \in DOMAIN document.sections[s].content :
               /\ document.sections[s].content[i].kind \in TRANSLATABLE_ROLES
               /\ document' = [document EXCEPT !.sections[s].content[i].done = TRUE]
  /\ UNCHANGED <<tagVars, subject, lines, pdfs, pageMap>>

RulesNext == TagStep \/ WriteLine \/ MapPages \/ OpenSection \/ AddItem \/ Translate

RulesSpec == RulesInit /\ [][RulesNext]_ruleVars

-----------------------------------------------------------------------------
(* The one pass of validate_ndjson_events accepts exactly the streams of a  *)
(* whole run, compared line with line: one started event, the first; one    *)
(* terminal event, the last; no number twice or smaller and no time earlier *)
(* than on any line before; and every line a known event of the run with a  *)
(* positive number.  So a stream that was cut, that holds a line twice or   *)
(* in which two lines are swapped is refused.                               *)
StreamIsWhole ==
  LET at(kind) == {i \in DOMAIN lines : lines[i].type \in kind}
  IN  /\ at({"started"}) = {1}
      /\ at(Terminal) = {Len(lines)}
      /\ \A i, j \in DOMAIN lines :
           i < j => lines[i].sequence < lines[j].sequence /\ lines[i].time <= lines[j].time
      /\ \A i \in DOMAIN lines :
           lines[i].runId = "r" /\ lines[i].type \in EventTypes /\ lines[i].sequence > 0
AcceptedStreamIsWhole == subject = "events" => (EventsAccepted("r", lines) <=> StreamIsWhole)

(* What _validate_page_map accepts lets a reader put any output page beside *)
(* its source page: every output page has exactly one source page, of the   *)
(* same geometry, and the pages come in the order of the source, one for a  *)
(* monolingual PDF and two neighbours for a dual one.                       *)
SourcesOf(o) ==
  {pageMap[i].sourcePage : i \in {k \in DOMAIN pageMap : o \in Range(pageMap[k].outputPages)}}
AcceptedMapPairsPages ==
  subject = "pages" /\ PageMapAccepted(pageMap, pdfs.role, pdfs.source, pdfs.output) =>
    /\ \A o \in DOMAIN pdfs.output :
         LET page == ((o - 1) \div PagesPerSource(pdfs.role)) + 1
         IN  SourcesOf(o) = {page} /\ pdfs.output[o] = pdfs.source[page]
    /\ {pageMap[i].sourcePage : i \in DOMAIN pageMap} = DOMAIN pdfs.source

(* The Web counts the chunks the MCP server hands out, so its progress      *)
(* reaches the end when the client has translated them all; and the chunks  *)
(* hold every unit once, in reading order, none longer than the limit unless *)
(* it is a single unit, and none that the next unit would still have fitted. *)
Joined(chunks) == FoldLeft(\o, <<>>, chunks)
ProgressAgrees ==
  subject = "chunks" =>
    LET chunks == TranslationChunks(document) IN
    /\ WebProgress(document) = ManifestProgress(document)
    /\ Joined(chunks) = TranslatableUnits(document)
    /\ \A c \in DOMAIN chunks :
         /\ TotalSize(chunks[c]) <= MaxCharacters \/ Len(chunks[c]) = 1
         /\ c < Len(chunks) => TotalSize(chunks[c]) + chunks[c + 1][1].size > MaxCharacters
=============================================================================
