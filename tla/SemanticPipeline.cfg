SPECIFICATION Spec
CONSTANTS
  Units = {"u1", "u2"}
  Texts = {"x", "y"}
  Sources = {"pdf", "other"}
  Readings <- MCReadings
  Retries = 0
  PoolSize = 2
  Pictures = {"p"}
  Runs <- MCRuns
  OneParserThread = FALSE
INVARIANTS DocumentIsEarned PublishedStatusIsEarned
PROPERTIES TranslationsKept PipelineEnds
CHECK_DEADLOCK FALSE
