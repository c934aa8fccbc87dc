\* An overwrite ends after its first write, then the job is finalized again.
SPECIFICATION Spec
CONSTANTS
  a = a
  b = b
  g = g
  k1 = k1
  k2 = k2
  t1 = t1
  t2 = t2
  Clients = {a, b}
  Promoters = {}
  Chunks = {k1, k2}
  Texts = {t1, t2}
  Flagged = {}
  Broken = {}
  Kind = "html"
  EmptyPages = {FALSE}
  Overwrites = TRUE
  Aborts = TRUE
  Releases = {}
  NoText = NoText
  NoOne = NoOne
INVARIANT FinalizedIsCurrent
CHECK_DEADLOCK FALSE
