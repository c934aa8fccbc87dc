--------------------------- MODULE DoclingConversion ---------------------------
(***************************************************************************)
(* docling_document_to_ir in docling_adapter.py: Docling's items, in the   *)
(* order of its body graph, become the blocks, sections and visuals of a   *)
(* structure.  A block is named by the place of its item.                  *)
(*                                                                         *)
(* An item has a kind (Docling's label, with the headings and paragraphs   *)
(* that later passes tell apart by their wording), a page, the level of a  *)
(* heading, the visual whose child it is, for a caption the kind of visual *)
(* its label names, and for a visual whether its crop is sound.  What      *)
(* geometry decides is an argument: overlapped, aligned, lines.            *)
(***************************************************************************)
EXTENDS SemanticDocument

Kinds == {"title", "heading", "references", "paragraph", "sign", "footnote", "caption", "header",
          "equation", "code", "figure", "table"}
Items == [kind : Kinds, page : 1 .. 2, level : Nat, within : Nat,
          of : {"none", "figure", "table", "equation"}, sound : BOOLEAN, numbered : BOOLEAN]

VisualKind(k) == IF k = "code" THEN "algorithm" ELSE k
VisualItems(doc) == {i \in DOMAIN doc : doc[i].kind \in {"equation", "code", "figure", "table"}}
Crops(doc) == {v \in VisualItems(doc) : doc[v].sound}
TextItems(doc) == {i \in DOMAIN doc : doc[i].kind \notin {"figure", "table"}}
Label(doc, i) ==
  CASE doc[i].kind = "references" -> "heading"
    [] doc[i].kind = "sign" -> "paragraph"
    [] doc[i].kind = "code" -> "algorithm"
    [] OTHER -> doc[i].kind
LastOf(S) == IF S = {} THEN 0 ELSE CHOOSE i \in S : \A j \in S : j <= i
FirstOf(S) == IF S = {} THEN 0 ELSE CHOOSE i \in S : \A j \in S : i <= j
\* What of a sequence is in bs, in its order.
Only(seq, bs) ==
  LET kept[k \in 0 .. Len(seq)] ==
        IF k = 0 THEN <<>> ELSE IF seq[k] \in bs THEN Append(kept[k - 1], seq[k]) ELSE kept[k - 1]
  IN kept[Len(seq)]
With(f, x, e) == [y \in DOMAIN f \cup {x} |-> IF y = x THEN e ELSE f[y]]

--------------------------------------------------------------------------------
(* Blocks.                                                                  *)
Assigned(role) ==
  [role |-> role, section |-> 0, para |-> 0, from |-> 0, hidden |-> FALSE, swallowed |-> FALSE,
   owners |-> {}, candidate |-> FALSE, attached |-> FALSE]

\* A short plain text over visuals, crops of theirs or none, is text of them all, as a child is.
Over(doc, i) ==
  IF doc[i].kind \in {"paragraph", "sign"} /\ doc[i].within = 0
  THEN {v \in VisualItems(doc) : doc[v].page = doc[i].page} ELSE {}
Overlaps(doc) == {f \in [TextItems(doc) -> SUBSET VisualItems(doc)] : \A i \in DOMAIN f : f[i] \subseteq Over(doc, i)}
\* _promote_missing_title: the first heading of page one, when another one follows it there.
Headings1(doc) == {i \in TextItems(doc) : Label(doc, i) = "heading" /\ doc[i].page = 1 /\ doc[i].within = 0}
Promotable(doc) ==
  IF (\E i \in DOMAIN doc : doc[i].kind = "title" /\ doc[i].page = 1) \/ Cardinality(Headings1(doc)) < 2
  THEN {} ELSE {FirstOf(Headings1(doc))}
\* overlapped gives the visuals a text lies over; title is the promoted heading or 0.
Records(doc, overlapped, title) ==
  [i \in TextItems(doc) |->
     LET owners == IF doc[i].within # 0 THEN {doc[i].within}
                   ELSE overlapped[i]
         role == IF owners # {} THEN "noise" ELSE IF i = title THEN "title" ELSE Label(doc, i)
     IN [Assigned(role) EXCEPT !.owners = owners, !.swallowed = owners # {},
                               !.para = IF role \in {"paragraph", "footnote"} THEN i ELSE 0]]

--------------------------------------------------------------------------------
(* Sections: a stack of headings by level, the current one holds what follows. *)
HeadingsOf(at) == {i \in DOMAIN at : at[i].role = "heading"}
SectionsOf(doc, at) ==
  [h \in HeadingsOf(at) |-> LastOf({g \in HeadingsOf(at) : g < h /\ doc[g].level < doc[h].level})]
Sectioned(doc, at) ==
  [i \in DOMAIN at |->
     LET s == LastOf({h \in HeadingsOf(at) : h <= i})
         listed == s # 0 /\ at[i].role = "paragraph" /\ doc[s].kind = "references"
     IN [at[i] EXCEPT !.section = s, !.role = IF listed THEN "reference" ELSE @]]

\* preserve_unrenderable_algorithm: code without a sound crop stays as text, joined to the text
\* beside it on its line or on its own.
Neighbour(doc, at, i) == LastOf({j \in DOMAIN at : j < i /\ doc[j].page = doc[i].page /\ doc[j].kind # "header"})
Joinable(doc, at) ==
  {i \in DOMAIN at : LET n == Neighbour(doc, at, i) IN
     doc[i].kind = "code" /\ ~doc[i].sound /\ n # 0 /\ at[n].role \in Body \ {"verbatim"} /\ at[n].para # 0
       /\ at[n].section = at[i].section}
PreserveCode(doc, at, joined) ==
  [i \in DOMAIN at |->
     LET n == Neighbour(doc, at, i) IN
     IF doc[i].kind # "code" \/ doc[i].sound THEN at[i]
     ELSE IF i \in joined THEN [at[i] EXCEPT !.role = at[n].role, !.para = at[n].para, !.from = n]
     ELSE [at[i] EXCEPT !.role = "verbatim", !.para = i]]

--------------------------------------------------------------------------------
(* Captions.  _align_visual_captions pairs the captions and the visuals of a *)
(* page and kind in their order, leaving some out; what could be paired is a *)
(* candidate.  Lines that continue a caption follow, whatever Docling called *)
(* them.                                                                     *)
Captions(doc) == {i \in TextItems(doc) : doc[i].kind = "caption"}
Fits(doc, c, v) == doc[c].page = doc[v].page /\ doc[c].of = doc[v].kind
Alignments(doc) ==
  {m \in [Captions(doc) -> Crops(doc) \cup {0}] :
     /\ \A c \in Captions(doc) : m[c] # 0 => Fits(doc, c, m[c])
     /\ \A c, e \in Captions(doc) : c < e /\ m[c] # 0 /\ m[e] # 0 /\ Fits(doc, c, m[e]) => m[c] < m[e]}
Lines(doc, m) ==
  LET able == {i \in TextItems(doc) : doc[i].kind \in {"paragraph", "heading"}}
  IN {f \in [able -> (Range(m) \ {0}) \cup {0}] : \A i \in able : f[i] # 0 => doc[f[i]].page = doc[i].page}
Captioned(doc, at, m, lines) ==
  [i \in DOMAIN at |->
     LET line == i \in DOMAIN lines /\ lines[i] # 0
         paired == i \in DOMAIN m /\ m[i] # 0
     IN IF line \/ paired
        THEN [at[i] EXCEPT !.role = "caption", !.para = 0, !.from = 0, !.swallowed = FALSE,
                           !.candidate = TRUE, !.attached = TRUE]
        ELSE [at[i] EXCEPT !.candidate = i \in DOMAIN m /\ \E v \in Crops(doc) : Fits(doc, i, v)]]

\* _link_cross_item_page_continuations: the first plain block of page two may continue the last
\* one before it, when both are of one section and role and no heading stands between.
PageContinuation(doc, at) ==
  LET plain == {i \in DOMAIN at : at[i].role = "paragraph"}
      next == FirstOf({i \in plain : doc[i].page = 2})
      previous == LastOf({i \in plain : i < next})
  IN IF next # 0 /\ previous # 0 /\ doc[previous].page = 1 /\ at[previous].section = at[next].section
        /\ ~\E h \in HeadingsOf(at) : previous < h /\ h < next
     THEN {<<previous, next>>} ELSE {}
Continued(at, pairs) ==
  [i \in DOMAIN at |->
     IF \E p \in pairs : p[2] = i
     THEN LET p == CHOOSE q \in pairs : q[2] = i IN [at[i] EXCEPT !.para = at[p[1]].para, !.from = p[1]]
     ELSE at[i]]

--------------------------------------------------------------------------------
(* Visuals stand after the latest text of their page before them, else the   *)
(* latest text before them, else the last text of the page.                  *)
Anchorable(doc, at) ==
  {i \in DOMAIN at : doc[i].kind # "header" /\ ~at[i].swallowed /\ at[i].role \notin {"caption", "equation", "algorithm"}}
AnchorOf(doc, at, v) ==
  LET before == {i \in Anchorable(doc, at) : i <= v}
      page == {i \in Anchorable(doc, at) : doc[i].page = doc[v].page}
  IN IF before \cap page # {} THEN LastOf(before \cap page) ELSE IF before # {} THEN LastOf(before) ELSE LastOf(page)

Structure(doc, at, sections, m, lines) ==   \* m, lines: whose caption a text is
  [order |-> Only([i \in DOMAIN doc |-> i], DOMAIN at), page |-> [i \in DOMAIN at |-> doc[i].page],
   sections |-> sections, references |-> {s \in DOMAIN sections : doc[s].kind = "references"},
   at |-> [i \in DOMAIN at |->
             LET hide == doc[i].kind = "header" \/ at[i].swallowed
             IN [at[i] EXCEPT !.hidden = hide, !.section = IF hide THEN 0 ELSE @]],
   visuals |-> {[item |-> v, part |-> 0, kind |-> VisualKind(doc[v].kind), page |-> doc[v].page,
                 anchor |-> AnchorOf(doc, at, v),
                 captions |-> {c \in DOMAIN m : m[c] = v} \cup {c \in DOMAIN lines : lines[c] = v}] : v \in Crops(doc)}]
================================================================================
