----------------------------- MODULE LibraryTags -----------------------------
(***************************************************************************)
(* The pure part of lib/library-state.ts: how the tags of a paper are      *)
(* normalised (normalizeTags), how a patch changes the state of one paper  *)
(* (the body of savePaperLibraryStateAt between load and write) and which  *)
(* stored states loadMetadata accepts.                                     *)
(*                                                                         *)
(* A tag is abstracted to what the code tells apart: what is left of it    *)
(* after trimming (Trim), whether that is empty (Blank) or longer than 32  *)
(* characters (TooLong), and its lower-case form (Fold).                   *)
(***************************************************************************)
EXTENDS Naturals, Sequences, SequencesExt

CONSTANTS
  Tag,      \* tags as a client may write them
  Blank,    \* the tag with nothing in it
  Trim,     \* value.trim().replace(/\s+/g, " ")
  Fold,     \* toLocaleLowerCase
  TooLong,  \* tags of more than 32 characters
  MaxTags,  \* tags of one paper: 12 in the code
  Unset,    \* a field the patch does not have
  Invalid   \* the update throws

ASSUME TagAssumption ==
  /\ Blank \in Tag /\ TooLong \subseteq Tag
  /\ Trim \in [Tag -> Tag] /\ \A t \in Tag : Trim[Trim[t]] = Trim[t]
  /\ DOMAIN Fold = Tag /\ MaxTags \in Nat
(* Neither is a list of tags or the state of a paper.                       *)
ASSUME SentinelAssumption ==
  /\ Unset \notin Seq(Tag) \cup BOOLEAN
  /\ Invalid \notin Seq(Tag) /\ Invalid \notin [tags : Seq(Tag), isRead : BOOLEAN, favorite : BOOLEAN]

(* The loop of normalizeTags over trimmed tags: the first spelling stays.  *)
KeepFirst(seen, t) ==
  IF t = Blank \/ \E s \in Range(seen) : Fold[s] = Fold[t] THEN seen ELSE Append(seen, t)

NormalizeTags(tags) ==
  LET trimmed == [i \in DOMAIN tags |-> Trim[tags[i]]]
      kept    == FoldLeft(KeepFirst, <<>>, trimmed)
  IN  IF Range(trimmed) \cap TooLong # {} \/ Len(kept) > MaxTags THEN Invalid ELSE kept

(* The filter over the stored tags: those in none of these lower-case forms. *)
Without(tags, gone) ==
  FoldLeft(LAMBDA kept, t : IF Fold[t] \in gone THEN kept ELSE Append(kept, t), <<>>, tags)

EmptyState == [tags |-> <<>>, isRead |-> FALSE, favorite |-> FALSE]

(* What savePaperLibraryStateAt makes of the three tag fields of a patch.   *)
(* Mutant: the added tags are normalised alone. *)
AddedTagsUnmerged(tags, new) ==
  IF new = Unset THEN tags
  ELSE IF NormalizeTags(new) = Invalid THEN Invalid
  ELSE tags \o NormalizeTags(new)
AddedTags(tags, new) ==
  IF new = Unset THEN tags
  ELSE IF NormalizeTags(new) = Invalid THEN Invalid
  ELSE NormalizeTags(tags \o NormalizeTags(new))
(* Mutant: only the spelling that was written is removed. *)
RemovedTagsSpelling(tags, old) ==
  IF old = Unset \/ tags = Invalid THEN tags
  ELSE IF NormalizeTags(old) = Invalid THEN Invalid
  ELSE FoldLeft(LAMBDA kept, t : IF t \in Range(NormalizeTags(old)) THEN kept ELSE Append(kept, t), <<>>, tags)
RemovedTags(tags, old) ==
  IF old = Unset \/ tags = Invalid THEN tags
  ELSE IF NormalizeTags(old) = Invalid THEN Invalid
  ELSE Without(tags, {Fold[t] : t \in Range(NormalizeTags(old))})

PatchedTags(tags, patch) ==
  IF patch.tags # Unset
  THEN IF patch.addTags # Unset \/ patch.removeTags # Unset
       THEN Invalid
       ELSE NormalizeTags(patch.tags)
  ELSE RemovedTags(AddedTags(tags, patch.addTags), patch.removeTags)

PatchedFlag(flag, new) == IF new = Unset THEN flag ELSE new

Patched(state, patch) ==
  LET tags == PatchedTags(state.tags, patch)
  IN  IF tags = Invalid \/ ~ {patch.isRead, patch.favorite} \subseteq (BOOLEAN \cup {Unset})
      THEN Invalid
      ELSE [tags |-> tags, isRead |-> PatchedFlag(state.isRead, patch.isRead),
            favorite |-> PatchedFlag(state.favorite, patch.favorite)]

(* loadMetadata refuses a file with a state whose tags it would change.     *)
Loadable(state) == NormalizeTags(state.tags) = state.tags
=============================================================================
