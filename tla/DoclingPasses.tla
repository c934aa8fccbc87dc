----------------------------- MODULE DoclingPasses -----------------------------
(***************************************************************************)
(* _extract_docling_semantics_bounded in docling_adapter.py after Docling  *)
(* has answered: the conversion, the repairs in their fixed order, the     *)
(* crops, and then the semantic document and its QA.                       *)
(*                                                                         *)
(* What geometry and wording decide in a pass is chosen freely within what *)
(* the pass requires of roles, order, pages, owners, anchors and sections. *)
(***************************************************************************)
EXTENDS DoclingVisuals
CONSTANT Docs   \* bound: what Docling may answer
ASSUME DocsAreItems == \A d \in Docs : d \in Seq(Items)

VARIABLES
  pc,       \* the pass that is next
  doc,      \* Docling's items
  ir,       \* the structure
  doubts,   \* what the passes could not resolve
  shown,    \* the visuals with a crop
  document, \* the semantic document
  qa
vars == <<pc, doc, ir, doubts, shown, document, qa>>

AfterMerge == {"split", "links", "captions", "build", "qa", "done", "failed"}
Passes == {"convert", "front", "blank", "panels", "demote", "lowercase", "signs", "overlays", "prose", "equations",
           "overlarge", "merge"} \cup AfterMerge
Doubts == {"blank heading", "panel heading", "overlarge figure", "internal caption", "unmerged panels",
           "printed url", "caption override"}
NoDocument == [sections |-> {}, units |-> <<>>, visuals |-> <<>>]

TypeOK ==
  /\ pc \in Passes /\ doubts \subseteq Doubts /\ qa \in {"none", "passed", "failed"}
  /\ pc # "convert" =>
       /\ Range(ir.order) = Blocks(ir) /\ Len(ir.order) = Cardinality(Blocks(ir))
       /\ \A v \in ir.visuals : v.captions \subseteq Blocks(ir) /\ v.anchor \in Blocks(ir) \cup {0}

Init ==
  /\ pc = "convert" /\ doc \in Docs /\ ir = <<>>
  /\ doubts = {} /\ shown = {} /\ document = NoDocument /\ qa = "none"

FrontBlock == Len(doc) + 1
Numbered == {i \in DOMAIN doc : doc[i].numbered}
Open == Blocks(ir) \ Numbered
Items0(kind) == {i \in DOMAIN doc : doc[i].kind = kind}

Go(next) == pc' = next /\ UNCHANGED <<doc, shown, document, qa>>
Repair(next, s) == Go(next) /\ ir' = s /\ UNCHANGED doubts
Doubt(next, what) == Go(next) /\ doubts' = doubts \cup what /\ UNCHANGED ir

--------------------------------------------------------------------------------
Convert ==
  /\ pc = "convert" /\ Go("front") /\ UNCHANGED doubts
  /\ \E overlapped \in Overlaps(doc), title \in {0} \cup Promotable(doc), link \in BOOLEAN :
     LET records == Records(doc, overlapped, title)
         sectioned == Sectioned(doc, records)
     IN \E joined \in SUBSET Joinable(doc, sectioned), m \in Alignments(doc) : \E lines \in Lines(doc, m) :
        LET texts == Captioned(doc, PreserveCode(doc, sectioned, joined), m, lines)
            linked == IF link THEN Continued(texts, PageContinuation(doc, texts)) ELSE texts
        IN ir' = Structure(doc, linked, SectionsOf(doc, records), m, lines)

RecoverFront ==
  /\ pc = "front"
  /\ \E hide \in FrontMatter(ir), lowercase \in BOOLEAN :
       Repair("blank", RecoverFrontMatter(ir, hide, IF lowercase THEN Blocks(ir) ELSE {}, FrontBlock))
KeepFront == pc = "front" /\ Repair("blank", ir)

SuppressBlankHeadings ==
  /\ pc = "blank" /\ Go("panels")
  /\ \E blank \in SUBSET VisibleAs(ir, {"heading"}) : \E same \in SUBSET (blank \cap Open) :
       /\ ir' = SuppressBlank(ir, Repeated(ir, same))
       /\ doubts' = doubts \cup (IF blank = Repeated(ir, same) THEN {} ELSE {"blank heading"})

AbsorbPanelHeadings ==
  /\ pc = "panels" /\ Go("demote")
  /\ \E rows \in SUBSET Proposals(ir, Open) :
       /\ \A r, q \in rows : r.figure = q.figure => r = q
       /\ ir' = AbsorbPanels(ir, Absorbed(ir, rows))
       /\ doubts' = doubts \cup (IF rows = Absorbed(ir, rows) THEN {} ELSE {"panel heading"})

DemoteHeadings == pc = "demote" /\ \E to \in Demotions(ir, Numbered) : Repair("lowercase", Demote(ir, to))
JoinLowercaseTails == pc = "lowercase" /\ \E tails \in SUBSET Tails(ir) : Repair("signs", JoinTails(ir, tails))
AbsorbEquationSigns ==
  /\ pc = "signs"
  /\ \E absorbing \in SUBSET WithSign(ir, Items0("sign")) : Repair("overlays", AbsorbSigns(ir, absorbing))
SuppressEquationOverlays ==
  /\ pc = "overlays"
  /\ \E overlays \in SUBSET Overlays(ir, Numbered) : Repair("prose", SuppressOverlays(ir, overlays))
\* Bound: one preface moves.
MoveEquationPreface == pc = "prose" /\ \E m \in Prefaces(ir) : Repair("equations", MovePreface(ir, m))
KeepOrder == pc = "prose" /\ Repair("equations", ir)
AnchorEquations ==
  /\ pc = "equations"
  /\ \E to \in [Equations(ir) -> Blocks(ir) \cup {0}] :
       /\ \A v \in Equations(ir) : to[v] \in EquationAnchors(ir, v)
       /\ Repair("overlarge", ReanchorEquations(ir, to))

--------------------------------------------------------------------------------
(* Pictures.  Bound: one overlarge picture, whose captions are a block each, *)
(* and one pair of panels in a paper.                                       *)
Figures == {v \in ir.visuals : v.kind = "figure"}
CaptionStarts(v) == Owned(ir, v) \cap Items0("caption")
Below(v, captions) == {b \in Owned(ir, v) : ir.at[b].swallowed} \ captions
\* A numbered equation has three lines at least.
Classes(lines) ==
  {as \in [lines -> {"equation", "heading", "paragraph"}] :
     LET equation == {b \in lines : as[b] = "equation"} IN equation = {} \/ Cardinality(equation) >= 3}

RecoverPicture ==
  /\ pc = "overlarge" /\ Go("merge") /\ UNCHANGED doubts
  /\ \E v \in Figures : \E starting \in SUBSET CaptionStarts(v) : \E captions \in SetToSeqs({{c} : c \in starting}) :
     /\ starting # {}
     /\ LET cut == CutPicture(ir, v, captions)
            base == BaseSection(ir, v)
        IN \E lines \in SUBSET Below(v, UNION Range(captions)) :
           IF lines = {} THEN ir' = cut
           ELSE \E released \in SetToSeqs(lines), as \in Classes(lines), starts \in SUBSET lines,
                   notes \in SUBSET BottomNotes(cut, v, SetToSeq(lines)), open \in BOOLEAN :
                LET s == Release(cut, v, released, as, starts, notes)
                    prose == Only(released, {b \in lines : as[b] = "paragraph"})
                IN ir' = IF open /\ prose # <<>> THEN ContinueOnNextPage(s, v, base, Last(prose)) ELSE s
LeavePicture ==
  /\ pc = "overlarge"
  /\ \E v \in Figures : CaptionStarts(v) # {} /\ Doubt("merge", {"overlarge figure", "internal caption"})
NoOverlargePicture == pc = "overlarge" /\ Repair("merge", ir)

MergeSplitPanels ==
  /\ pc = "merge" /\ Go("split") /\ UNCHANGED doubts
  /\ \E v \in Captioned1(ir) : \E w \in Beside(ir, v), headers \in SUBSET (OnPage(ir, v.page) \ v.captions), join \in BOOLEAN :
       /\ Cardinality(headers) >= 2
       /\ LET s == MergePanels(ir, v, w, headers)
              section == MergedSection(ir, headers)
              merged == CHOOSE x \in s.visuals : x.item = v.item /\ x.part = v.part
          IN ir' = IF join THEN RelinkInterrupted(s, merged, headers, section) ELSE s
LeavePanels == pc = "merge" /\ Captioned1(ir) # {} /\ Doubt("split", {"unmerged panels"})
NoSplitPanels == pc = "merge" /\ Repair("split", ir)

SplitParallelTables ==
  /\ pc = "split"
  /\ \E v \in {w \in ir.visuals : w.kind = "table"} :
       \E kind \in {"table", "algorithm"}, captions \in [{1, 2} -> SUBSET v.captions] :
         Repair("links", SplitTable(ir, v, kind, captions))
NoParallelTables == pc = "split" /\ Repair("links", ir)

JoinPrintedLink == pc = "links" /\ \E c \in LinkChains(ir), whole \in BOOLEAN : Repair("captions", JoinLink(ir, c, whole))
LeaveLink == pc = "links" /\ Visible(ir) # {} /\ Doubt("captions", {"printed url"})
NoBrokenLink == pc = "links" /\ Repair("captions", ir)
\* refine_pdf_caption_texts, and an interleaved caption that it could not set right; then the crops.
RefineCaptions ==
  /\ pc = "captions" /\ pc' = IF StructureAccepted(ir) THEN "build" ELSE "failed"
  /\ doubts' \in {doubts} \cup (IF \E v \in ir.visuals : v.captions # {} THEN {doubts \cup {"caption override"}} ELSE {})
  /\ shown' \in SUBSET ir.visuals
  /\ UNCHANGED <<doc, ir, document, qa>>

--------------------------------------------------------------------------------
(* What is labelled may be placed where the text speaks of it.              *)
Build ==
  /\ pc = "build" /\ Buildable(ir, shown) /\ pc' = "qa"
  /\ \E chosen \in [shown -> {{}} \cup {{u} : u \in References(ir)}] :
       /\ \A v \in shown : v.captions = {} => chosen[v] = {}
       /\ document' = Document(ir, shown, chosen)
  /\ UNCHANGED <<doc, ir, doubts, shown, qa>>
\* page_assignments[0] of a page without text.
BuildFails ==
  /\ pc = "build" /\ ~Buildable(ir, shown) /\ pc' = "failed"
  /\ UNCHANGED <<doc, ir, doubts, shown, document, qa>>
Qa ==
  /\ pc = "qa" /\ pc' = "done"
  /\ \E faults \in SUBSET {"other"} : qa' = IF QaPassed(ir, document, doubts, faults) THEN "passed" ELSE "failed"
  /\ UNCHANGED <<doc, ir, doubts, shown, document>>
Stop == pc \in {"done", "failed"} /\ UNCHANGED vars

Next ==
  \/ Convert \/ RecoverFront \/ KeepFront \/ SuppressBlankHeadings \/ AbsorbPanelHeadings \/ DemoteHeadings
  \/ JoinLowercaseTails \/ AbsorbEquationSigns \/ SuppressEquationOverlays \/ MoveEquationPreface \/ KeepOrder
  \/ AnchorEquations \/ RecoverPicture \/ LeavePicture \/ NoOverlargePicture \/ MergeSplitPanels \/ LeavePanels
  \/ NoSplitPanels \/ SplitParallelTables \/ NoParallelTables \/ JoinPrintedLink \/ LeaveLink \/ NoBrokenLink
  \/ RefineCaptions \/ Build \/ BuildFails \/ Qa \/ Stop
Spec == Init /\ [][Next]_vars

--------------------------------------------------------------------------------
(* Properties.                                                              *)

\* No section is inside itself: no set of sections has the parents of all of them.
Rooted(s) == \A X \in SUBSET DOMAIN s.sections : X # {} => \E x \in X : s.sections[x] \notin X
\* A picture was cut at its captions, and then the panels beside each other were merged.
CutAndMerged == pc \in AfterMerge /\ \E v \in Figures : v.part # 0

\* Whatever sections the passes take away, every block and every section still
\* names a section of the paper as its own and as its parent, and no section is
\* inside itself (surviving_parent, the reparenting of split panels), but for a
\* heading the text of a cut picture was put under.
SectionsResolve ==
  pc # "convert" =>
    /\ \A b \in Blocks(ir) : ir.at[b].section \in DOMAIN ir.sections \cup {0}
    /\ \A x \in DOMAIN ir.sections : ir.sections[x] \in DOMAIN ir.sections \cup {0}
    /\ CutAndMerged \/ Rooted(ir)

\* Once the equations have their place, no paragraph goes on behind an equation
\* that stands in it: what comes after it is a paragraph of its own
\* (_reanchor_equations_by_geometry).
EquationsEndParagraphs ==
  pc = "overlarge" =>
    \A v \in Equations(ir) : v.anchor # 0 /\ ir.at[v.anchor].para # 0 =>
      \A b \in After(ir, v.anchor) \cap Visible(ir) : ir.at[b].para # ir.at[v.anchor].para

\* A document that passes QA has every text of the paper that is still text
\* in one of its sections, every heading and caption as the title of a section or
\* beneath a visual, has a section for every visual, and repeats no text of a
\* visual.
PassedIsComplete ==
  qa = "passed" =>
    /\ VisibleAs(ir, Body) = UNION {Members(ir, u) : u \in {x \in DOMAIN document.units : document.units[x] \in document.sections}}
    /\ VisibleAs(ir, {"heading", "caption"}) \subseteq (UNION {v.captions : v \in shown}) \cup DOMAIN ir.sections
    /\ \A v \in shown : document.visuals[v] \in document.sections
    /\ \A v, w \in shown : v # w => v.captions \cap w.captions = {}

\* A heading ends a paragraph: when pictures have given back the text they had
\* swallowed, nothing continues a block from before a heading
\* (structure-rules.md:15).
ParagraphStopsAtHeading ==
  pc = "merge" =>
    \A b \in Visible(ir) : ir.at[b].from # 0 =>
      After(ir, ir.at[b].from) \cap Before(ir, b) \cap VisibleAs(ir, {"heading"}) = {}

\* A paper with text is converted: a page without any keeps it from nothing
\* (docs/pdf-pipeline.md:85).
BlankPageIsKept == pc = "failed" => Visible(ir) = {}
================================================================================
