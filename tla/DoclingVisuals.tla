---------------------------- MODULE DoclingVisuals ----------------------------
(***************************************************************************)
(* The passes of docling_adapter.py that repair visuals: pictures that     *)
(* swallowed captions and text, panels split in two, tables side by side,  *)
(* and the links printed in the text.  Written as in DoclingRepairs.       *)
(***************************************************************************)
EXTENDS DoclingRepairs

(* _recover_overlarge_docling_pictures.  A picture that owns the text of    *)
(* captions inside it is cut at them; what it owns below the last one is    *)
(* text of the page again.                                                  *)
Owned(s, v) == {b \in OnPage(s, v.page) : v.item \in s.at[b].owners}
Recovered(r, role, section, para, from) ==
  [r EXCEPT !.role = role, !.section = section, !.para = para, !.from = from, !.hidden = FALSE, !.swallowed = FALSE,
            !.owners = {}, !.candidate = role = "caption", !.attached = role = "caption"]
BaseSection(s, v) == IF v.anchor = 0 THEN 0 ELSE s.at[v.anchor].section

\* captions: one set of blocks for each picture it is cut into.
CutPicture(s, v, captions) ==
  LET all == UNION Range(captions) IN
  [s EXCEPT !.at = [b \in Blocks(s) |-> IF b \in all THEN Recovered(@[b], "caption", BaseSection(s, v), 0, 0) ELSE @[b]],
            !.visuals = (@ \ {v}) \cup {[v EXCEPT !.part = i, !.captions = captions[i]] : i \in DOMAIN captions}]

\* The released text, line by line: as is a label of the picture text, of a numbered equation,
\* of a heading or of a paragraph, and starts are the lines with which a new region begins.
Classed(s, base, released, as, starts) ==
  LET Line(acc, b) ==
        CASE as[b] = "equation" ->
               [acc EXCEPT !.at[b] = Recovered(@, "equation", acc.section, 0, 0), !.head = 0]
          [] as[b] = "heading" ->
               [acc EXCEPT !.at[b] = Recovered(@, "heading", b, 0, 0), !.head = 0, !.section = b,
                           !.sections = IF b \in DOMAIN @ THEN @ ELSE With(@, b, base)]
          [] OTHER ->
               LET new == acc.head = 0 \/ b \in starts
                   head == IF new THEN b ELSE acc.head
               IN [acc EXCEPT !.at[b] = Recovered(@, "paragraph", acc.section, head, IF new THEN 0 ELSE acc.last),
                              !.head = head, !.last = b]
      done[k \in 0 .. Len(released)] ==
        IF k = 0 THEN [at |-> s.at, section |-> base, sections |-> s.sections, head |-> 0, last |-> 0]
        ELSE Line(done[k - 1], released[k])
  IN done[Len(released)]
ReleasedEquation(v, released, as) ==   \* it stands after the line before it
  LET lines == {i \in DOMAIN released : as[released[i]] = "equation"}
      first == CHOOSE i \in lines : \A j \in lines : i <= j
  IN IF lines = {} THEN {}
     ELSE {[item |-> released[first], part |-> 0, kind |-> "equation", page |-> v.page, captions |-> {},
            anchor |-> IF first = 1 THEN v.anchor ELSE released[first - 1]]}
\* _move_bottom_footnotes_after_recovered_body.
BottomNotes(s, v, released) ==
  {b \in OnPage(s, v.page) \cap VisibleAs(s, {"footnote"}) : \E r \in Range(released) : b \in Before(s, r)}
MovedNotes(s, notes, released) ==
  LET last == Latest(s, Range(released))
  IN Only(s.order, (Before(s, last) \cup {last}) \ notes) \o Only(s.order, notes) \o Only(s.order, After(s, last) \ notes)
Release(s, v, released, as, starts, notes) ==
  LET base == BaseSection(s, v)
      done == Classed(s, base, released, as, starts)
  IN [s EXCEPT !.at = done.at, !.sections = done.sections,
               !.visuals = @ \cup ReleasedEquation(v, released, as),
               !.order = IF notes = {} THEN @ ELSE MovedNotes(s, notes, released)]
\* An open last paragraph takes the first one of the next page, and that page's beginning its section.
ContinueOnNextPage(s, v, base, last) ==
  LET next == Earliest(s, OnPage(s, v.page + 1) \cap VisibleAs(s, {"abstract", "paragraph"}))
      section == s.at[last].section
      linked == [s.at EXCEPT ![next].para = s.at[last].para, ![next].from = last, ![next].section = section]
      heading == {b \in OnPage(s, v.page + 1) : s.at[b].role = "heading"}
      beginning == {b \in OnPage(s, v.page + 1) : \A h \in heading : h \in After(s, b)}
  IN IF next = 0 THEN s
     ELSE [s EXCEPT !.at = [b \in Blocks(s) |-> IF b \in beginning /\ linked[b].section \in {0, base}
                                                THEN [linked[b] EXCEPT !.section = section] ELSE linked[b]],
                    !.visuals = {IF w.page = v.page + 1 /\ w.anchor = v.anchor THEN [w EXCEPT !.anchor = last] ELSE w : w \in @}]

--------------------------------------------------------------------------------
(* _merge_split_panel_figures.  A figure whose caption speaks of a left and  *)
(* a right panel takes the unlabelled figure beside it; the headers of the   *)
(* panels (headings to Docling, perhaps) leave the text.                     *)
Captioned1(s) == {v \in s.visuals : v.kind = "figure" /\ v.captions # {}}
Beside(s, v) == {w \in s.visuals \ {v} : w.kind = "figure" /\ w.page = v.page /\ w.captions = {}}
Reparented(s, gone, section) ==
  [x \in DOMAIN s.sections \ gone |-> IF s.sections[x] \in gone THEN section ELSE s.sections[x]]
MergedSection(s, headers) ==   \* of the latest text before them that keeps its own
  LET b == Latest(s, {x \in Before(s, Earliest(s, headers)) \cap Visible(s) : s.at[x].section \notin headers \cup {0}})
  IN IF b = 0 THEN 0 ELSE s.at[b].section
MergePanels(s, v, w, headers) ==
  LET gone == headers \cap DOMAIN s.sections
      before == Before(s, Earliest(s, headers)) \cap Visible(s)
      section == MergedSection(s, headers)
      anchors == {b \in before : s.at[b].role \notin {"caption", "equation", "algorithm"}}
      anchor == IF anchors = {} THEN v.anchor ELSE Latest(s, anchors)
  IN [s EXCEPT !.sections = Reparented(s, gone, section), !.references = @ \ gone,
               !.at = [b \in Blocks(s) |-> IF b \in headers THEN InVisual(@[b])
                                           ELSE IF @[b].section \in gone THEN [@[b] EXCEPT !.section = section] ELSE @[b]],
               !.visuals = (@ \ {v, w}) \cup {[v EXCEPT !.anchor = anchor]}]
\* _relink_interrupted_panel_paragraph: the sentence goes on after the merged figure v.
RelinkInterrupted(s, v, headers, section) ==
  LET a == v.anchor
      after == {b \in Blocks(s) : v.captions \cup headers \subseteq Before(s, b)}
      next == Earliest(s, after \cap VisibleAs(s, {"abstract", "paragraph"}))
      group == {b \in After(s, next) \cup {next} : UnitOf(s, b) = UnitOf(s, next)}
  IN IF a = 0 \/ next = 0 THEN s
     ELSE IF a \notin VisibleAs(s, {"abstract", "paragraph"}) \/ s.at[a].para = 0 \/ s.at[next].section \notin {0, section} THEN s
     ELSE [s EXCEPT !.at = [b \in Blocks(s) |->
             IF b \notin group THEN @[b]
             ELSE [@[b] EXCEPT !.para = s.at[a].para, !.section = s.at[a].section,
                               !.from = IF b = next THEN a ELSE Latest(s, group \cap Before(s, b))]]]

--------------------------------------------------------------------------------
(* _split_parallel_labeled_visuals: two labelled tables in one crop.  Each   *)
(* takes the captions that name its label, or all of them when it has the    *)
(* label of the whole.                                                       *)
SplitTable(s, v, kind, captions) ==
  [s EXCEPT !.visuals = (@ \ {v}) \cup {[v EXCEPT !.part = i, !.kind = kind, !.captions = captions[i]] : i \in {1, 2}}]

(* _recover_pdf_link_annotations: a printed link broken over blocks becomes  *)
(* text of the first one; the blocks that follow are emptied and hidden,     *)
(* but the last one may keep what comes after the link.                      *)
LinkChains(s) ==
  {c \in UNION {SubSeqs(Only(s.order, Visible(s) \cap OnPage(s, p))) : p \in Range(s.page)} :
     Len(c) \in {2, 3}}
JoinLink(s, c, whole) ==   \* whole: nothing of the last block is left
  LET last == c[Len(c)]
      emptied == Range(c) \ ({c[1]} \cup (IF whole THEN {} ELSE {last}))
      own == [s.at[c[1]] EXCEPT !.para = IF @ = 0 THEN c[1] ELSE @]
      tail == [s.at[last] EXCEPT !.role = own.role, !.section = own.section, !.para = own.para, !.from = c[1]]
  IN [s EXCEPT !.at = [b \in Blocks(s) |->
        IF b = c[1] THEN own ELSE IF b \in emptied THEN [@[b] EXCEPT !.hidden = TRUE]
        ELSE IF b = last THEN tail ELSE @[b]]]
===============================================================================
