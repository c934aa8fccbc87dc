---------------------------- MODULE MCLibraryState ----------------------------
(* Two updates of one paper, or those and one of another paper.  The tags   *)
(* are one word in two spellings, a second word, one that trims to the first *)
(* and the empty tag.                                                       *)
EXTENDS LibraryState, TLC

CONSTANTS w1, w2, u1, u2, u3

MCTag == {"ml", "ML", " ml ", "ai", ""}
MCTrim == [t \in MCTag |-> IF t = " ml " THEN "ml" ELSE t]
MCFold == [t \in MCTag |-> IF t \in {"ml", "ML"} THEN "ml" ELSE t]

NoPatch == [tags |-> Unset, addTags |-> Unset, removeTags |-> Unset,
            isRead |-> Unset, favorite |-> Unset]

MCPaperOf == (u1 :> "a") @@ (u2 :> "a") @@ (u3 :> "b")
MCPatchOf == (u1 :> [NoPatch EXCEPT !.addTags = <<" ml ", "ai">>])
          @@ (u2 :> [NoPatch EXCEPT !.addTags = <<"ML">>, !.isRead = TRUE])
          @@ (u3 :> [NoPatch EXCEPT !.favorite = TRUE])

MCPaperOf2 == (u1 :> "a") @@ (u2 :> "a")
MCPatchOf2 == (u1 :> [NoPatch EXCEPT !.addTags = <<" ml ">>])
           @@ (u2 :> [NoPatch EXCEPT !.addTags = <<"ai">>, !.isRead = TRUE])

Symmetry == Permutations(Web)
=============================================================================
