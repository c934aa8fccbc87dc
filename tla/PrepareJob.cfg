\* Calls for two papers, other software in the output directory, failures, kills.
SPECIFICATION PrepareSpec
CONSTANTS
  c1 = c1
  c2 = c2
  c3 = c3
  a1 = a1
  a2 = a2
  Callers = {c1, c2, c3}
  PaperOf <- TwoPapers
  Foreign = TRUE
  Fails = TRUE
  Crashes = TRUE
  Nobody = Nobody
INVARIANT PrepareIsShared
PROPERTY DataKept
CHECK_DEADLOCK FALSE
