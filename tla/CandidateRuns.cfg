\* Publishers that are killed anywhere, writes and mkdtemp that fail, and any of
\* the directories missing at the start.
SPECIFICATION Spec
CONSTANTS
  p1 = p1
  p2 = p2
  p3 = p3
  r1 = r1
  r2 = r2
  Publishers = {p1, p2, p3}
  Promoters = {q}
  Runs = {r1, r2}
  RunOf <- MCRunOf
  Eligible = {p1, p2}
  Faults = {"io", "mkdtemp", "crash"}
  NoOne = NoOne
INVARIANTS PublishedIsWhole CleanedUp
PROPERTY ImplementsRunRegistry
CHECK_DEADLOCK FALSE
