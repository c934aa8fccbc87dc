SPECIFICATION Spec
CONSTANTS
  MaxPages = 1
  MaxInputBytes = 2
  MaxOutputBytes = 4
  Reviewed <- MCReviewed
  Calls = {"run", "probe"}
  RunCall = "run"
  Assets <- MCAssets
  DirOf <- MCDirOf
  Engine <- MCEngine
  ReportBytes = 1
  Quota = 5
  MaxProgress = 1
  Jobs <- MCJobs
INVARIANTS PublishedIsWhole NothingOutlives CompletedIsWhole ReadyIsStable
PROPERTY RunEnds
CHECK_DEADLOCK FALSE
