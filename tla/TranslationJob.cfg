\* A PDF job with promotions and renderer upgrades; calls end between any two
\* writes, and clients come back after every call that was cut short.
SPECIFICATION FairSpec
CONSTANTS
  a = a
  b = b
  g = g
  k1 = k1
  k2 = k2
  t1 = t1
  t2 = t2
  Clients = {a, b}
  Promoters = {g}
  Chunks = {k1, k2}
  Texts = {t1, t2}
  Flagged = {t2}
  Broken = {}
  Kind = "pdf"
  EmptyPages = {TRUE, FALSE}
  Overwrites = FALSE
  Aborts = TRUE
  Releases = {"unsafe", "older"}
  NoText = NoText
  NoOne = NoOne
INVARIANTS PublishedIsTranslated PublishedIsCurrent
PROPERTIES ManifestUpdatesKept ImplementsTranslationRecord JobCompletes
CHECK_DEADLOCK FALSE
