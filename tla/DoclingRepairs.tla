---------------------------- MODULE DoclingRepairs ----------------------------
(***************************************************************************)
(* The passes of docling_adapter.py that repair headings, paragraphs and   *)
(* equations of a converted structure, each as what may be chosen (from    *)
(* the PDF's geometry and the wording) and the structure that results.     *)
(***************************************************************************)
EXTENDS DoclingConversion

Noise(r) == [r EXCEPT !.role = "noise", !.para = 0, !.from = 0, !.hidden = TRUE]
InVisual(r) ==   \* text of a visual, in no section; its owner is no longer Docling's
  [Noise(r) EXCEPT !.section = 0, !.swallowed = TRUE, !.owners = {}, !.candidate = FALSE, !.attached = FALSE]
AnchorRoles == {"title", "author", "affiliation", "abstract", "heading", "paragraph", "list_item", "reference", "footnote"}
Reanchored(s, moved) ==   \* moved: new anchors by block
  {[v EXCEPT !.anchor = IF @ \in DOMAIN moved THEN moved[@] ELSE @] : v \in s.visuals}

\* Removing sections: their blocks and children go to the nearest parent that stays, or where
\* there is none to the section of a fallback (surviving_parent).
\* Mutant: one step up only.
WithoutSectionsOnce(s, gone, fallback) ==
  LET climb == [x \in DOMAIN s.sections \cup {0} |->
                  IF x \notin gone THEN x ELSE IF s.sections[x] # 0 THEN s.sections[x] ELSE fallback[x]]
      kept == DOMAIN s.sections \ gone
  IN [s EXCEPT !.sections = [k \in kept |-> climb[s.sections[k]]], !.references = @ \ gone,
               !.at = [b \in Blocks(s) |-> [s.at[b] EXCEPT !.section = climb[@]]]]
WithoutSections(s, gone, fallback) ==
  LET climb[x \in DOMAIN s.sections \cup {0}] ==
        IF x \notin gone THEN x ELSE IF s.sections[x] # 0 THEN climb[s.sections[x]] ELSE climb[fallback[x]]
      kept == DOMAIN s.sections \ gone
  IN [s EXCEPT !.sections = [k \in kept |-> climb[s.sections[k]]], !.references = @ \ gone,
               !.at = [b \in Blocks(s) |-> [s.at[b] EXCEPT !.section = climb[@]]]]

--------------------------------------------------------------------------------
(* _recover_page_one_front_matter: what stands between the title and the    *)
(* abstract is replaced by the PDF's own rows (one synthetic block here).   *)
FrontMatter(s) ==   \* what may be hidden
  LET titles == VisibleAs(s, {"title"}) \cap OnPage(s, 1) IN
  IF titles = {} \/ VisibleAs(s, {"heading"}) \cap OnPage(s, 1) = {} THEN {}
  ELSE SUBSET {b \in OnPage(s, 1) : s.at[b].role \in {"affiliation", "author", "footnote", "list_item", "metadata", "paragraph"}}
\* The paragraphs before b that it may go on from.
Alike(s, at, b) ==
  {p \in Before(s, b) : ~at[p].hidden /\ at[p].role = at[b].role /\ at[p].section = at[b].section /\ at[p].para # 0}
\* A tail of what is hidden goes, when it is lowercase, to the latest paragraph like it, else is its own.
Rejoined(s, hide, lowercase) ==
  LET Joined(at, b) ==
        LET like == Alike(s, at, b) \ hide
            p == Latest(s, like)
        IN IF at[b].from \notin hide THEN at
           ELSE [at EXCEPT ![b] = IF b \in lowercase /\ like # {} THEN [@ EXCEPT !.para = at[p].para, !.from = p]
                                  ELSE [@ EXCEPT !.para = b, !.from = 0]]
      at[k \in 0 .. Len(s.order)] == IF k = 0 THEN s.at ELSE Joined(at[k - 1], s.order[k])
  IN at[Len(s.order)]
RecoverFrontMatter(s, hide, lowercase, front) ==
  LET hidden == [s EXCEPT !.at = [b \in Blocks(s) |-> IF b \in hide THEN Noise(s.at[b]) ELSE s.at[b]]]
      CaptionFor(v) == Latest(hidden, v.captions \cap Visible(hidden))
      visuals == {IF v.anchor \in hide /\ CaptionFor(v) # 0 THEN [v EXCEPT !.anchor = CaptionFor(v)] ELSE v : v \in s.visuals}
      title == Latest(s, VisibleAs(s, {"title"}) \cap OnPage(s, 1))
  IN [hidden EXCEPT !.visuals = visuals,
                    !.order = InsertAt(s.order, Place(s, title) + 1, front),
                    !.page = With(@, front, 1),
                    !.at = With(Rejoined(hidden, hide, lowercase), front, Assigned("author"))]

--------------------------------------------------------------------------------
(* _suppress_blank_docling_headings: figure metadata repeated as headings   *)
(* that are blank in the PDF.                                               *)
FiguresAt(s, b) == {v \in s.visuals : v.kind = "figure" /\ v.anchor = b /\ v.page = s.page[b]}
Repeated(s, same) ==   \* same: the blank headings that share one text
  IF \E b, c \in same : s.page[b] # s.page[c] THEN {b \in same : s.page[b] > 1 /\ FiguresAt(s, b) # {}} ELSE {}
SuppressBlank(s, gone) ==
  LET fallback == [b \in gone |-> Latest(s, (Before(s, b) \cap VisibleAs(s, AnchorRoles)) \ gone)]
      section == [b \in gone |-> IF fallback[b] = 0 THEN 0 ELSE s.at[fallback[b]].section]
      without == WithoutSections(s, gone \cap DOMAIN s.sections, section)
  IN [without EXCEPT
        !.at = [b \in Blocks(s) |-> IF b \in gone THEN InVisual(@[b]) ELSE @[b]],
        !.visuals = {IF v.anchor \in gone /\ v \in FiguresAt(s, v.anchor) THEN [v EXCEPT !.anchor = fallback[v.anchor]] ELSE v : v \in @}]

\* _absorb_aligned_figure_panel_headings: the headings in a row above a figure are its labels.
\* A proposal is a figure and the headings of its row, one of which it is anchored at.
PanelRows(s, open) ==
  {[figure |-> v, headings |-> hs] : v \in {w \in s.visuals : w.kind = "figure"},
                                     hs \in {x \in SUBSET (VisibleAs(s, {"heading"}) \cap open) : Cardinality(x) >= 2}}
Proposals(s, open) == {r \in PanelRows(s, open) : r.figure.anchor \in r.headings /\ r.headings \subseteq OnPage(s, r.figure.page)}
RowFallback(s, r) ==
  Latest(s, {b \in Before(s, Earliest(s, r.headings)) \cap VisibleAs(s, AnchorRoles) : s.at[b].section # 0})
Contested(rows) == {b \in UNION {r.headings : r \in rows} : Cardinality({r \in rows : b \in r.headings}) > 1}
Absorbed(s, rows) == {r \in rows : r.headings \cap Contested(rows) = {} /\ RowFallback(s, r) # 0}
AbsorbPanels(s, rows) ==
  LET gone == UNION {r.headings : r \in rows}
      row == [b \in gone |-> CHOOSE r \in rows : b \in r.headings]
      fallback == [b \in gone |-> RowFallback(s, row[b])]
      without == WithoutSections(s, gone \cap DOMAIN s.sections, [b \in gone |-> s.at[fallback[b]].section])
  IN [without EXCEPT
        !.at = [b \in Blocks(s) |-> IF b \in gone THEN InVisual(@[b]) ELSE @[b]],
        !.visuals = Reanchored(s, fallback)]

\* _demote_mislabeled_docling_headings: inline labels that Docling made headings.
Demotable(s, numbered) == (VisibleAs(s, {"heading"}) \cap DOMAIN s.sections) \ (numbered \cup s.references)
Demotions(s, numbered) ==
  {to \in UNION {[d -> {"reference", "list_item", "paragraph", "noise"}] : d \in SUBSET Demotable(s, numbered)} :
     \A b \in DOMAIN to : to[b] = "noise" => \E v \in s.visuals : v.page = s.page[b]}
Demote(s, to) ==
  LET gone == DOMAIN to
      fallback == [b \in gone |-> LET p == Latest(s, {c \in Before(s, b) \cap Visible(s) : s.at[c].section \notin gone \cup {0}})
                                  IN IF p = 0 THEN 0 ELSE s.at[p].section]
      without == WithoutSections(s, gone, fallback)
  IN [without EXCEPT !.at = [b \in Blocks(s) |->
        IF b \notin gone THEN @[b]
        ELSE IF to[b] = "noise" THEN [Noise(@[b]) EXCEPT !.swallowed = TRUE, !.owners = {}]
        ELSE [@[b] EXCEPT !.role = to[b], !.para = b, !.from = 0]]]

--------------------------------------------------------------------------------
(* _repair_lowercase_body_continuations: a lowercase tail joins the latest   *)
(* unfinished paragraph of its role and section.                             *)
Tails(s) == {b \in VisibleAs(s, {"abstract", "paragraph"}) : s.at[b].section # 0}
JoinTails(s, tails) ==
  LET Joined(at, b) ==
        LET like == Alike(s, at, b)
            p == Latest(s, like)
        IN IF b \notin tails \/ like = {} THEN at
           ELSE IF s.page[b] - s.page[p] \notin {0, 1} THEN at
           ELSE [at EXCEPT ![b] = [@ EXCEPT !.para = at[p].para, !.from = p]]
      at[k \in 0 .. Len(s.order)] == IF k = 0 THEN s.at ELSE Joined(at[k - 1], s.order[k])
  IN [s EXCEPT !.at = at[Len(s.order)]]

(* _absorb_adjacent_equation_signs: a lone sign before an equation becomes   *)
(* part of its crop.                                                         *)
Equations(s) == {v \in s.visuals : v.kind = "equation"}
SignOf(s, v) == Latest(s, Before(s, v.item) \cap OnPage(s, v.page))
WithSign(s, signs) == {v \in Equations(s) : SignOf(s, v) \in signs \cap Visible(s) /\ v.anchor = SignOf(s, v)}
AnchorsEquation == {"abstract", "equation", "footnote", "heading", "list_item", "paragraph"}
AbsorbSigns(s, absorbing) ==
  LET signs == {SignOf(s, v) : v \in absorbing}
      fallback == [b \in signs |->
        LET p == Latest(s, (Before(s, b) \cap OnPage(s, s.page[b]) \cap VisibleAs(s, AnchorsEquation)) \ signs)
        IN IF p = 0 THEN b ELSE p]
  IN [s EXCEPT !.at = [b \in Blocks(s) |-> IF b \in signs THEN [Noise(@[b]) EXCEPT !.swallowed = TRUE] ELSE @[b]],
               !.visuals = (@ \ absorbing) \cup {[v EXCEPT !.anchor = fallback[v.anchor]] : v \in absorbing}]

\* _suppress_overlapping_equation_fragments: an unnumbered equation over two numbered ones.
Overlays(s, numbered) ==
  {v \in Equations(s) : v.item \notin numbered
     /\ Cardinality({w \in Equations(s) : w.page = v.page /\ w.item \in numbered}) >= 2}
SuppressOverlays(s, overlays) ==
  LET blocks == {v.item : v \in overlays}
  IN [s EXCEPT !.at = [b \in Blocks(s) |-> IF b \in blocks THEN [Noise(@[b]) EXCEPT !.swallowed = TRUE] ELSE @[b]],
               !.visuals = @ \ overlays]

\* _reorder_displaced_equation_prose_by_geometry: a preface moves back above its equation.
Prefaces(s) ==
  {m \in VisibleAs(s, {"paragraph"}) \X VisibleAs(s, {"equation"}) :
     s.at[m[1]].section # 0 /\ s.at[m[2]].section = s.at[m[1]].section
       /\ m[2] \in Before(s, m[1]) /\ s.page[m[1]] = s.page[m[2]]}
MovePreface(s, m) ==
  LET p == m[1]
      to == Place(s, m[2])
      moved == [i \in DOMAIN s.order |->
                  IF i = to THEN p ELSE IF to < i /\ i <= Place(s, p) THEN s.order[i - 1] ELSE s.order[i]]
      at == [s.at EXCEPT ![p] = IF @.from # 0 THEN [@ EXCEPT !.para = p, !.from = 0] ELSE @]
  IN [s EXCEPT !.order = moved, !.at = at]

(* _reanchor_equations_by_geometry: an equation stands after the block above *)
(* it; what follows in that block's paragraph becomes a paragraph.           *)
EquationAnchors(s, v) == {v.anchor} \cup ((OnPage(s, v.page) \cap VisibleAs(s, AnchorsEquation)) \ {v.item})
\* Mutant: only the block after the equation leaves the paragraph.
TailsNext(s, at, a) ==
  LET tails == {b \in After(s, a) : ~at[b].hidden /\ at[b].para = at[a].para}
  IN {b \in tails : b = Earliest(s, tails)}
TailsOf(s, at, a) == {b \in After(s, a) : ~at[b].hidden /\ at[b].para = at[a].para}
ReanchorEquations(s, to) ==   \* to: the anchor of each equation
  LET anchors == Range(to)
      Split(at, a) ==
        LET tails == TailsOf(s, at, a) IN
        IF a \notin anchors \/ at[a].para = 0 THEN at
        ELSE [b \in Blocks(s) |-> IF b \notin tails THEN at[b]
                                  ELSE [at[b] EXCEPT !.para = Earliest(s, tails), !.from = Latest(s, tails \cap Before(s, b))]]
      at[k \in 0 .. Len(s.order)] == IF k = 0 THEN s.at ELSE Split(at[k - 1], s.order[k])
  IN [s EXCEPT !.at = at[Len(s.order)],
               !.visuals = (@ \ Equations(s)) \cup {[v EXCEPT !.anchor = to[v]] : v \in Equations(s)}]
===============================================================================
