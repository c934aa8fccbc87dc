----------------------- MODULE MCCandidatePublication -----------------------
(* Two publishers of one run id, one of another, a promoter.                  *)
EXTENDS CandidatePublication, TLC

CONSTANTS p1, p2, p3, r1, r2

MCRunOf == (p1 :> r1) @@ (p2 :> r1) @@ (p3 :> r2)
=============================================================================
