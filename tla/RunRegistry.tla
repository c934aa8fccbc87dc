------------------------------ MODULE RunRegistry ------------------------------
(* What the candidate runs of one paper promise: every run id is given at most  *)
(* once, to one candidate, and stays with it; only a published candidate that   *)
(* passed review is ever the paper's translated PDF.                            *)
CONSTANTS Publishers, Runs, RunOf, Eligible, NoOne

VARIABLES registry, \* the candidate published under each run id, or NoOne
          selected  \* the candidate promoted to translated PDF, or NoOne

vars == <<registry, selected>>

Init == registry = [r \in Runs |-> NoOne] /\ selected = NoOne

Publish(p) ==
  /\ registry[RunOf[p]] = NoOne
  /\ registry' = [registry EXCEPT ![RunOf[p]] = p]
  /\ UNCHANGED selected

Promote(r) ==
  /\ registry[r] \in Eligible
  /\ selected' = registry[r]
  /\ UNCHANGED registry

Next == (\E p \in Publishers : Publish(p)) \/ (\E r \in Runs : Promote(r))

Spec == Init /\ [][Next]_vars
=============================================================================
