------------------------------ MODULE MCHostRules ------------------------------
(* Tags: one word in two spellings, one that trims to the first, two more   *)
(* words, the empty tag and one that is too long.  Lines: three types,      *)
(* three numbers, two times, and lines of another run, of no known type and *)
(* without a positive number.  PDFs of up to two source pages in two        *)
(* geometries.  Items that fit twice, once and not at all, a caption and a  *)
(* figure.                                                                  *)
EXTENDS HostRules

MCTag == {"ml", "ML", " ml ", "ai", "nlp", "", "long"}
MCTrim == [t \in MCTag |-> IF t = " ml " THEN "ml" ELSE t]
MCFold == [t \in MCTag |-> IF t \in {"ml", "ML"} THEN "ml" ELSE t]

MCLine ==
  [type : {"started", "progress", "completed"}, runId : {"r"}, sequence : 1 .. 3, time : 1 .. 2]
    \cup {[type |-> "progress", runId |-> "other", sequence |-> 2, time |-> 1],
          [type |-> "unknown", runId |-> "r", sequence |-> 2, time |-> 1],
          [type |-> "started", runId |-> "r", sequence |-> 0, time |-> 1],
          [type |-> "failed", runId |-> "r", sequence |-> 3, time |-> 2]}

MCGeometry == {"portrait", "landscape"}
Pages(n) == UNION {[1 .. k -> MCGeometry] : k \in 1 .. n}
MCPdfPair == [role : PdfRoles, source : Pages(2), output : Pages(4)]
MCMapEntry ==
  [sourcePage : 1 .. 2, outputPages : {<<>>, <<1>>, <<2>>, <<1, 2>>, <<2, 1>>, <<3, 4>>, <<5>>}]

MCItem ==
  [type : {"unit"}, kind : {"paragraph"}, size : {2, 4, 6}, done : {FALSE}]
    \cup {[type |-> "unit", kind |-> "caption", size |-> 2, done |-> FALSE],
          [type |-> "visual", kind |-> "figure", size |-> 2, done |-> FALSE]}
=============================================================================
