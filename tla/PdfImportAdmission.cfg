\* Two requests over two Web processes that crash at any step but those of the
\* faults left out, and a legacy lock file or none.
CONSTANTS
  Web = {w1, w2}
  Owner = {o1, o2}
  None = None
  Faults = {"torn_lock"}
SPECIFICATION FairSpec
INVARIANT StatusIsTruthful
PROPERTIES ImplementsSingleImport AdmissionEnds LeftoverReclaimable
CHECK_DEADLOCK FALSE
