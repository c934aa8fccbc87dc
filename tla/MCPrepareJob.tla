----------------------------- MODULE MCPrepareJob -----------------------------
(* Three calls for one job id, two of them for the same paper.                 *)
EXTENDS PrepareJob, TLC

CONSTANTS c1, c2, c3, a1, a2

TwoPapers == (c1 :> a1) @@ (c2 :> a1) @@ (c3 :> a2)
=============================================================================
