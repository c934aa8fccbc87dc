---------------------------- MODULE LibraryUpdates ----------------------------
(***************************************************************************)
(* What lib/library-state.ts promises: every saved update changes one      *)
(* paper of the newest library, at once, and none is lost.                 *)
(***************************************************************************)
CONSTANTS Update, PaperOf, PatchOf, Corrupt, Invalid, Patched(_, _)

VARIABLES papers, saved

Apply(u) ==
  LET state == Patched(papers[PaperOf[u]], PatchOf[u]) IN
  /\ u \notin saved
  /\ papers # Corrupt
  /\ state # Invalid
  /\ papers' = [papers EXCEPT ![PaperOf[u]] = state]
  /\ saved' = saved \cup {u}

Next == \E u \in Update : Apply(u)

Spec == saved = {} /\ [][Next]_<<papers, saved>>
=============================================================================
