--------------------------- MODULE TranslationChunks ---------------------------
(***************************************************************************)
(* The text a client translates chunk by chunk.  Two programs cut the      *)
(* document: pdf_translation_chunks (pdf_artifacts.py, the MCP server and  *)
(* the manifest) and readPdfMcpProgress (lib/paper-library.ts, the Web).   *)
(*                                                                         *)
(* An item of a document is [type, kind, size, done]: size is the length   *)
(* of the original text, done says that the translation is not blank.      *)
(***************************************************************************)
EXTENDS Naturals, FiniteSets, Sequences, SequencesExt

CONSTANT MaxCharacters  \* PDF_MCP_MAX_CHARACTERS, 9000 in both programs

ASSUME MaxCharactersAssumption == MaxCharacters \in Nat

TRANSLATABLE_ROLES == {"abstract", "paragraph", "list_item", "footnote"}

(* iter_translatable_units *)
Yield(units, item) ==
  IF item.type = "unit" /\ item.kind \in TRANSLATABLE_ROLES THEN Append(units, item) ELSE units
YieldSection(units, section) == FoldLeft(Yield, Append(units, section.title), section.content)
TranslatableUnits(document) == FoldLeft(YieldSection, <<document.title>>, document.sections)

TotalSize(units) == FoldLeft(LAMBDA sum, u : sum + u.size, 0, units)

(* The packing loop.                                                         *)
Packed(chunks, unit) ==
  IF chunks = <<>> \/ TotalSize(Last(chunks)) + unit.size > MaxCharacters
  THEN Append(chunks, <<unit>>)
  ELSE Append(Front(chunks), Append(Last(chunks), unit))

Completed(chunk) == \A i \in DOMAIN chunk : chunk[i].done

(* pdf_translation_chunks, and its count in the manifest                     *)
TranslationChunks(document) == FoldLeft(Packed, <<>>, TranslatableUnits(document))
ManifestProgress(document) ==
  LET chunks == TranslationChunks(document)
  IN  [completed |-> Cardinality({c \in DOMAIN chunks : Completed(chunks[c])}), total |-> Len(chunks)]

(* readPdfMcpProgress: one loop over all items, with the rule of its own for *)
(* what counts; then the open chunk, of which, as of the closed ones, only   *)
(* counts matter.  Mutant: every unit counts, captions too.                  *)
PushAll(units, item) == IF item.type = "unit" THEN Append(units, item) ELSE units
PushAllOfSection(units, section) == FoldLeft(PushAll, Append(units, section.title), section.content)
WebUnitsAll(document) == FoldLeft(PushAllOfSection, <<document.title>>, document.sections)
Push(units, item) ==
  IF item.type = "unit" /\ item.kind \in {"abstract", "paragraph", "list_item", "footnote"}
  THEN Append(units, item) ELSE units
PushSection(units, section) == FoldLeft(Push, Append(units, section.title), section.content)
WebUnits(document) == FoldLeft(PushSection, <<document.title>>, document.sections)

NoUnits == [closed |-> 0, completed |-> 0, count |-> 0, size |-> 0, done |-> TRUE]
Counted(open, unit) ==
  IF open.count > 0 /\ open.size + unit.size > MaxCharacters
  THEN [closed |-> open.closed + 1, completed |-> open.completed + (IF open.done THEN 1 ELSE 0),
        count |-> 1, size |-> unit.size, done |-> unit.done]
  ELSE [open EXCEPT !.count = @ + 1, !.size = @ + unit.size, !.done = @ /\ unit.done]
WebProgress(document) ==
  LET end == FoldLeft(Counted, NoUnits, WebUnits(document))
  IN  [completed |-> end.completed + (IF end.done THEN 1 ELSE 0), total |-> end.closed + 1]
=============================================================================
