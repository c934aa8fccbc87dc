-------------------------- MODULE MCSemanticPipeline --------------------------
(* Two units whose originals a second reading swaps or partly replaces.        *)
EXTENDS SemanticPipeline, TLC
MCReadings == [s \in Sources |-> IF s = "pdf"
                 THEN {"u1" :> "x" @@ "u2" :> "y", "u1" :> "y" @@ "u2" :> "x"}
                 ELSE {"u1" :> "y" @@ "u2" :> "y"}]
Run(parser, mode) == [parser |-> parser, mode |-> mode]
MCRuns == <<{Run("docling", "translate"), Run("llm", "skip")}, {Run("llm", "translate"), Run("hybrid", "mcp")}>>
================================================================================
