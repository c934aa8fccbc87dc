\* Requests slower than the two minutes: admissions are reclaimed under them.
CONSTANTS
  Web = {w1, w2}
  Owner = {o1, o2}
  None = None
  Faults = {"slow_setup", "crash_spawn", "torn_guard", "torn_lock"}
SYMMETRY Symmetry
SPECIFICATION Spec
INVARIANT WorkerSupervised
PROPERTY ReleaseAfterGroupExit
CHECK_DEADLOCK FALSE
