--------------------------- MODULE SemanticDocument ---------------------------
(***************************************************************************)
(* From a paper's structure to the semantic document and its QA:           *)
(* build_semantic_document in semantic.py, validate_structure_batch in     *)
(* structure.py and write_semantic_pdf_qa in pdf_artifacts.py.             *)
(*                                                                         *)
(* A structure (evidence and structure of the code) is a record: the text  *)
(* blocks in reading order, what is assigned to each of them, the parent   *)
(* of each section (named by the block that is its title; 0 is no parent,  *)
(* no section, no block) and the visuals.  Text and geometry are left out. *)
(***************************************************************************)
EXTENDS Naturals, Sequences, FiniteSets, SequencesExt
CONSTANTS Preamble, Supplement   \* the sections build_semantic_document may add

Translatable == {"abstract", "paragraph", "list_item", "footnote"}
FrontRoles == {"title", "author", "affiliation", "metadata"}
Body == Translatable \cup {"verbatim", "reference"}
Semantic == FrontRoles \cup Body \cup {"heading", "caption"}

Blocks(s) == DOMAIN s.at
Place(s, b) == CHOOSE i \in DOMAIN s.order : s.order[i] = b
Before(s, b) == {s.order[i] : i \in 1 .. Place(s, b) - 1}
After(s, b) == {s.order[i] : i \in Place(s, b) + 1 .. Len(s.order)}
Latest(s, bs) == IF bs = {} THEN 0 ELSE CHOOSE b \in bs : bs \ {b} \subseteq Before(s, b)
Earliest(s, bs) == IF bs = {} THEN 0 ELSE CHOOSE b \in bs : bs \ {b} \subseteq After(s, b)
OnPage(s, p) == {b \in Blocks(s) : s.page[b] = p}
Visible(s) == {b \in Blocks(s) : ~s.at[b].hidden}
VisibleAs(s, roles) == {b \in Visible(s) : s.at[b].role \in roles}

--------------------------------------------------------------------------------
(* validate_structure_batch: every block assigned once on its page (how a   *)
(* structure is written here), captions of the page, anchors of the paper.  *)
StructureAccepted(s) ==
  \A v \in s.visuals : v.captions \subseteq OnPage(s, v.page) /\ v.anchor \in Blocks(s) \cup {0}

--------------------------------------------------------------------------------
(* The document.  A unit is what has one paragraph id, or a block alone.    *)
UnitOf(s, b) == IF s.at[b].para # 0 THEN <<"paragraph", s.at[b].para>> ELSE <<"block", b>>
Units(s) == {UnitOf(s, b) : b \in VisibleAs(s, Body)}
Members(s, u) == {b \in VisibleAs(s, Body) : UnitOf(s, b) = u}
UnitHead(s, u) == Earliest(s, Members(s, u))

\* The block a visual stands after; without any the visual cannot be placed.
AnchorBlock(s, v) ==
  IF v.anchor # 0 THEN v.anchor
  ELSE IF v.captions # {} THEN Latest(s, v.captions)
  ELSE Earliest(s, OnPage(s, v.page))
Buildable(s, shown) == \A v \in shown : AnchorBlock(s, v) # 0

\* _select_visual_reference_anchor: the prose of a section that names the visual by its label.
References(s) ==
  {u \in Units(s) : s.at[UnitHead(s, u)].role \in Translatable
                    /\ s.at[UnitHead(s, u)].section \in DOMAIN s.sections}
\* The section of a visual: of the prose chosen for it, else of the block it stands after, but
\* not the references section.
VisualSection(s, v, chosen) ==
  IF chosen[v] # {} THEN s.at[UnitHead(s, CHOOSE u \in chosen[v] : TRUE)].section
  ELSE LET own == s.at[AnchorBlock(s, v)].section IN
       IF own \in s.references \cap DOMAIN s.sections /\ v.kind \in {"figure", "table", "algorithm"}
       THEN Supplement ELSE own

\* Mutant: only units without a section are given one.
DocumentLooseUnits(s, shown, chosen) ==
  LET section == [u \in Units(s) |-> s.at[UnitHead(s, u)].section]
      where == [v \in shown |-> VisualSection(s, v, chosen)]
      headed == DOMAIN s.sections \cup {Supplement}
      loose == {u \in Units(s) : section[u] \notin headed}
  IN [sections |-> headed \cup (IF loose = {} THEN {} ELSE {Preamble}),
      units |-> [u \in Units(s) |-> IF u \in loose THEN Preamble ELSE section[u]], visuals |-> where]
Document(s, shown, chosen) ==
  LET section == [u \in Units(s) |-> s.at[UnitHead(s, u)].section]
      where == [v \in shown |-> VisualSection(s, v, chosen)]
      headed == DOMAIN s.sections \cup {where[v] : v \in {w \in shown : where[w] = Supplement}}
      Loose(in) == {x \in DOMAIN in : in[x] \notin headed}
      placed(in) == [x \in DOMAIN in |-> IF x \in Loose(in) THEN Preamble ELSE in[x]]
  IN [sections |-> headed \cup (IF Loose(section) = {} /\ Loose(where) = {} THEN {} ELSE {Preamble}),
      units |-> placed(section), visuals |-> placed(where)]

--------------------------------------------------------------------------------
(* write_semantic_pdf_qa, as far as it is about blocks and visuals.         *)
ShownText(s, d) ==
  VisibleAs(s, FrontRoles) \cup DOMAIN s.sections
    \cup UNION {Members(s, u) : u \in {x \in DOMAIN d.units : d.units[x] \in d.sections}}
Represented(s, d) == ShownText(s, d) \cup UNION {v.captions : v \in DOMAIN d.visuals}
Swallowed(s) == {b \in Blocks(s) : s.at[b].swallowed}
CaptionOfTwo(s) == {b \in Blocks(s) : \E v, w \in s.visuals : v # w /\ b \in v.captions \cap w.captions}

\* Overlap of visible text with a visual and what is outside these records is in faults.
QaPassed(s, d, doubts, faults) ==
  /\ faults = {}
  /\ VisibleAs(s, {"title"}) # {}
  /\ VisibleAs(s, Semantic) \subseteq Represented(s, d)
  /\ Swallowed(s) \cap (Represented(s, d) \cup Visible(s)) = {}
  /\ CaptionOfTwo(s) = {}
  /\ \A b \in Blocks(s) : s.at[b].candidate => s.at[b].attached
  /\ doubts = {}
  /\ \E u \in DOMAIN d.units : d.units[u] \in d.sections
===============================================================================
