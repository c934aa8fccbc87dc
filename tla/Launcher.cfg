SPECIFICATION Spec
CONSTANTS
  Commands = {"a", "b"}
  Starts = {"a", "b"}
  Dev = {}
  Offline = {}
  Locked = {"weights"}
  FirstFiles = {"wrong"}
  Edited = {"deps"}
  MaxEdits = 2
  MaxKills = 1
INVARIANTS ReadyIsCurrent NoStrayService
PROPERTIES ModelsAreKept CommandEnds
CHECK_DEADLOCK FALSE
