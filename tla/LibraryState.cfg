\* Two updates of one paper over two processes, crashes anywhere, failing writes
\* and time.
SPECIFICATION FairSpec
CONSTANTS
  w1 = w1
  w2 = w2
  u1 = u1
  u2 = u2
  u3 = u3
  Web = {w1, w2}
  Update = {u1, u2}
  Paper = {"a", "b"}
  PaperOf <- MCPaperOf2
  PatchOf <- MCPatchOf2
  Corrupt = Corrupt
  None = None
  Faults = {"torn", "io_error"}
  Tag <- MCTag
  Blank = ""
  Trim <- MCTrim
  Fold <- MCFold
  TooLong = {}
  MaxTags = 2
  Unset = Unset
  Invalid = Invalid
PROPERTIES ImplementsLibraryUpdates UpdateEnds DeadOwnerReplaced
CHECK_DEADLOCK FALSE
