------------------------------- MODULE PaperTags -------------------------------
(***************************************************************************)
(* The tags of one paper under the two PATCH routes                        *)
(* app/api/papers/[slug]/library and .../tags: a client writes words into  *)
(* the fields of a request and sends it; LibraryTags says what becomes of  *)
(* the paper.                                                              *)
(***************************************************************************)
EXTENDS LibraryTags, FiniteSets

CONSTANT MaxWords  \* words a client writes into one request

VARIABLES
  state,    \* the stored state of the paper
  added,    \* addTags of the request being written
  removed   \* removeTags

tagVars == <<state, added, removed>>

TagInit == state = EmptyState /\ added = <<>> /\ removed = <<>>

Write ==
  /\ Len(added) + Len(removed) < MaxWords
  /\ \E t \in Tag : \/ added' = Append(added, t) /\ UNCHANGED removed
                    \/ removed' = Append(removed, t) /\ UNCHANGED added
  /\ UNCHANGED state

Patch(tags, add, remove) ==
  [tags |-> tags, addTags |-> add, removeTags |-> remove, isRead |-> Unset, favorite |-> Unset]

Send(patch) ==
  LET new == Patched(state, patch) IN
  /\ state' = IF new = Invalid THEN state ELSE new
  /\ added' = <<>>
  /\ removed' = <<>>

(* The library route takes all fields, the tags route the last two.         *)
SendTags == Send(Patch(added, Unset, Unset))
SendChange == Send(Patch(Unset, added, removed))

TagNext == Write \/ SendTags \/ SendChange

TagSpec == TagInit /\ [][TagNext]_tagVars

-----------------------------------------------------------------------------
(* NormalizeTags by sets: of the words that are not blank, the first of     *)
(* each lower-case form, in the order written.                              *)
Reference(tags) ==
  LET word(i) == Trim[tags[i]]
      first == {i \in DOMAIN tags : /\ word(i) # Blank
                                    /\ \A j \in 1 .. i - 1 : Fold[word(j)] # Fold[word(i)]}
  IN  IF (\E i \in DOMAIN tags : word(i) \in TooLong) \/ Cardinality(first) > MaxTags
      THEN Invalid
      ELSE [n \in 1 .. Cardinality(first) |->
              word(CHOOSE i \in first : Cardinality({j \in first : j <= i}) = n)]

(* normalizeTags computes its reference, and normalising again changes      *)
(* nothing: what a save wrote, the next load accepts.                       *)
NormalizeTagsIsReference ==
  /\ NormalizeTags(added) = Reference(added)
  /\ NormalizeTags(added) # Invalid => NormalizeTags(NormalizeTags(added)) = NormalizeTags(added)

(* The stored state is one that loadMetadata accepts, after any history of  *)
(* accepted and refused patches: otherwise no update could ever be made again. *)
StoredStateLoads == Loadable(state)

(* A change that is accepted loses none of the other tags and keeps their   *)
(* order and spelling, and afterwards none of the removed words is there in *)
(* any spelling; a change that only removes is refused only for the words   *)
(* it names.                                                                *)
Folded(tags) == {Fold[t] : t \in Range(tags)}
ChangeIsExact ==
  [][SendChange =>
       LET gone == IF NormalizeTags(removed) = Invalid THEN {} ELSE Folded(NormalizeTags(removed))
           kept == Without(state.tags, gone)
       IN  /\ state' # state => IsPrefix(kept, state'.tags) /\ Folded(state'.tags) \cap gone = {}
           /\ added = <<>> /\ NormalizeTags(removed) # Invalid => state'.tags = kept]_tagVars
=============================================================================
